---- MODULE Spec2Model ----
(***************************************************************************)
(* The weekly scheduler of drive_c_backend (src/api/schedule_routes.py):   *)
(* time and day utilities, the activity payload validator, the instance    *)
(* expander, the request handlers over the member and activity tables and  *)
(* the retry wrapper around them; and the participant resolution of        *)
(* src/services/ai_postprocess.py.                                         *)
(*                                                                         *)
(* Python values are modelled as tagged records: None, an int, a str.      *)
(* A time string is a sequence of one-character strings, so that parsing   *)
(* and formatting work on its characters.  A calendar date is its          *)
(* proleptic Gregorian ordinal (datetime.date.toordinal), a date string    *)
(* "YYYY-MM-DD" the triple <<Y, M, D>> of its three number fields.          *)
(***************************************************************************)
EXTENDS Integers, Sequences, FiniteSets, TLC

VARIABLES
    members,      \* table family_member: set of rows [id, user_id, name,
                  \* color, icon]
    activities,   \* table activity (committed rows, with their participants)
    last,         \* the last request and the response it was given
    served,       \* the number of requests served
    reads,        \* history: the users that a roster read has answered 200
    raw,          \* pipeline: the payload handed to the validator
    norm,         \* pipeline: the validator's outcome / the expander's input
    insts,        \* pipeline: the expander's outcome
    phase,        \* pipeline: "raw", "validated", "norm" or "expanded"
    environ,      \* os.environ["AI_PARSE_STRICT_UNKNOWN_PARTICIPANTS"]
    STRICT_UNKNOWN, \* ai_postprocess.STRICT_UNKNOWN, once the module is loaded
    fm_list,      \* resolver: the roster handed to map_participants_to_ids
    items,        \* resolver: the items handed to map_participants_to_ids
    mapped,       \* resolver: the outcome of map_participants_to_ids
    remapped,     \* resolver: the outcome of mapping the outcome again
    rphase,       \* resolver: "idle", "start", "loaded", "mapped", "remapped"
    call          \* one request inside retry_on_connection_error's wrapper

vars == <<members, activities, last, served, reads, raw, norm, insts, phase,
          environ, STRICT_UNKNOWN, fm_list, items, mapped, remapped, rphase,
          call>>

storeVars == <<members, activities, last, served, reads>>
pipeVars == <<raw, norm, insts, phase>>
resolveVars ==
    <<environ, STRICT_UNKNOWN, fm_list, items, mapped, remapped, rphase>>
retryVars == <<call>>

---------------------------------------------------------------------------
(* Python values *)

PyNone == [k |-> "none"]
PyInt(i) == [k |-> "int", i |-> i]
PyStr(s) == [k |-> "str", s |-> s]
PyList(l) == [k |-> "list", l |-> l]
PyDate(d) == [k |-> "date", d |-> d]

IsNone(x) == x.k = "none"
IsInt(x) == x.k = "int"
IsStr(x) == x.k = "str"
IsList(x) == x.k = "list"
IsDate(x) == x.k = "date"

PyBool(b) == [k |-> "bool", b |-> b]

\* str(x) of a str or of None
PyStrOf(x) == IF IsNone(x) THEN "None" ELSE x.s

\* bool(x) of a str or of None
Truthy(x) == ~IsNone(x) /\ x.s # ""

\* The outcome of a call: a value, or the exception it raised.
Ok(v) == [ok |-> TRUE, v |-> v]
Raise(e) == [ok |-> FALSE, exc |-> e]

Digits == <<"0", "1", "2", "3", "4", "5", "6", "7", "8", "9">>

IsDigit(c) == \E i \in 1..10 : Digits[i] = c

DigitVal(c) == (CHOOSE i \in 1..10 : Digits[i] = c) - 1

RECURSIVE DigitsVal(_)
DigitsVal(s) ==
    IF s = <<>> THEN 0
    ELSE 10 * DigitsVal(SubSeq(s, 1, Len(s) - 1)) + DigitVal(s[Len(s)])

RECURSIVE LStrip(_)
LStrip(s) == IF s # <<>> /\ s[1] = " " THEN LStrip(Tail(s)) ELSE s

RECURSIVE RStrip(_)
RStrip(s) ==
    IF s # <<>> /\ s[Len(s)] = " " THEN RStrip(SubSeq(s, 1, Len(s) - 1)) ELSE s

\* int(str): surrounding blanks and one sign are accepted, then decimal
\* digits only; anything else raises ValueError.  (The alphabet of the
\* modelled strings holds no underscore and no non-ASCII digit.)
PyIntOfStr(s) ==
    LET t == RStrip(LStrip(s))
        signed == t # <<>> /\ t[1] \in {"+", "-"}
        d == IF signed THEN Tail(t) ELSE t
    IN  IF d = <<>> \/ \E i \in 1..Len(d) : ~IsDigit(d[i])
        THEN Raise("ValueError")
        ELSE Ok(IF signed /\ t[1] = "-" THEN 0 - DigitsVal(d) ELSE DigitsVal(d))

\* str.split(":")
RECURSIVE SplitColon(_)
SplitColon(s) ==
    IF \A i \in 1..Len(s) : s[i] # ":" THEN <<s>>
    ELSE LET p == CHOOSE i \in 1..Len(s) :
                      s[i] = ":" /\ \A j \in 1..(i - 1) : s[j] # ":"
         IN  <<SubSeq(s, 1, p - 1)>> \o SplitColon(SubSeq(s, p + 1, Len(s)))

---------------------------------------------------------------------------
(* Time utilities *)

\* _parse_time_hhmm: the datetime(2000, 1, 1, hour, minute) is kept as its
\* [hour, minute] pair.
ParseTimeHHMM(value) ==
    IF ~IsStr(value) \/ Len(value.s) \notin {4, 5} THEN Raise("ValueError")
    ELSE LET parts == SplitColon(value.s) IN
         IF Len(parts) # 2 THEN Raise("ValueError")
         ELSE LET h == PyIntOfStr(parts[1])
                  m == PyIntOfStr(parts[2])
              IN  IF ~h.ok \/ ~m.ok THEN Raise("ValueError")
                  ELSE IF ~(0 <= h.v /\ h.v <= 23 /\ 0 <= m.v /\ m.v <= 59)
                       THEN Raise("ValueError")
                       ELSE Ok([hour |-> h.v, minute |-> m.v])

\* f"{n:02d}" for 0 <= n <= 99
TwoDigits(n) == <<Digits[(n \div 10) + 1], Digits[(n % 10) + 1]>>

\* _time_to_str
TimeToStr(dt) == TwoDigits(dt.hour) \o <<":">> \o TwoDigits(dt.minute)

\* datetime comparison on the fixed day 2000-01-01
TimeLess(a, b) == a.hour * 60 + a.minute < b.hour * 60 + b.minute

---------------------------------------------------------------------------
(* Day utilities *)

SV_WEEKDAYS ==
    <<"Måndag", "Tisdag", "Onsdag", "Torsdag", "Fredag", "Lördag", "Söndag">>

\* The keys of SV_TO_NUM: v.lower() of each weekday name, in ISO order.
SvLower ==
    <<"måndag", "tisdag", "onsdag", "torsdag", "fredag", "lördag", "söndag">>

InSvToNum(s) == \E i \in 1..7 : SvLower[i] = s

SV_TO_NUM(s) == CHOOSE i \in 1..7 : SvLower[i] = s

\* d.strip().lower() of the day strings of the model: the weekday names, the
\* two other spellings listed here, and strings that are already stripped
\* and lower-case (a digit, an English name).
StripLower(s) ==
    IF \E i \in 1..7 : SV_WEEKDAYS[i] = s
    THEN SvLower[CHOOSE i \in 1..7 : SV_WEEKDAYS[i] = s]
    ELSE CASE s = "FREDAG" -> "fredag"
           [] s = " fredag " -> "fredag"
           [] OTHER -> s

\* _norm_day
NormDay(d) ==
    IF IsInt(d)
    THEN IF 1 <= d.i /\ d.i <= 7 THEN Ok(SV_WEEKDAYS[d.i]) ELSE Raise("ValueError")
    ELSE IF IsStr(d)
    THEN LET s == StripLower(d.s) IN
         IF IsDigit(s) /\ 1 <= DigitVal(s) /\ DigitVal(s) <= 7
         THEN Ok(SV_WEEKDAYS[DigitVal(s)])
         ELSE IF InSvToNum(s) THEN Ok(SV_WEEKDAYS[SV_TO_NUM(s)])
              ELSE Raise("ValueError")
    ELSE Raise("ValueError")

\* _require_int: val is None, an int, or a str (a sequence of characters)
RequireInt(val) ==
    IF IsNone(val) THEN Raise("ValueError")
    ELSE IF IsInt(val) THEN Ok(val.i)
    ELSE IF IsStr(val) THEN PyIntOfStr(val.s)
    ELSE Raise("ValueError")

---------------------------------------------------------------------------
(* Calendar: datetime.date as its ordinal, 0001-01-01 being day 1 *)

IsLeap(y) == y % 4 = 0 /\ (y % 100 # 0 \/ y % 400 = 0)

DaysBeforeYear(y) ==
    (y - 1) * 365 + ((y - 1) \div 4) - ((y - 1) \div 100) + ((y - 1) \div 400)

DaysInMonth(y, m) ==
    IF m = 2 THEN (IF IsLeap(y) THEN 29 ELSE 28)
    ELSE IF m \in {4, 6, 9, 11} THEN 30 ELSE 31

RECURSIVE DaysBeforeMonth(_, _)
DaysBeforeMonth(y, m) ==
    IF m = 1 THEN 0 ELSE DaysBeforeMonth(y, m - 1) + DaysInMonth(y, m - 1)

Ymd2Ord(y, m, d) == DaysBeforeYear(y) + DaysBeforeMonth(y, m) + d

\* date.year of an ordinal (datetime._ord2ymd)
YearOfOrd(ord) ==
    LET n0 == ord - 1
        n400 == n0 \div 146097
        r400 == n0 % 146097
        n100 == r400 \div 36524
        r100 == r400 % 36524
        n4 == r100 \div 1461
        r4 == r100 % 1461
        n1 == r4 \div 365
        y == n400 * 400 + 1 + n100 * 100 + n4 * 4 + n1
    IN  IF n1 = 4 \/ n100 = 4 THEN y - 1 ELSE y

\* date.isoweekday(): Monday is 1
IsoWeekday(ord) == ((ord + 6) % 7) + 1

\* datetime._isoweek1monday
IsoWeek1Monday(y) ==
    LET firstday == Ymd2Ord(y, 1, 1)
        firstweekday == (firstday + 6) % 7
        week1monday == firstday - firstweekday
    IN  IF firstweekday > 3 THEN week1monday + 7 ELSE week1monday

\* date.isocalendar()
IsoCalendar(ord) ==
    LET y == YearOfOrd(ord)
        w == IF ord >= IsoWeek1Monday(y)
             THEN (ord - IsoWeek1Monday(y)) \div 7
             ELSE 0 - 1
        d == IsoWeekday(ord)
    IN  IF w < 0
        THEN [year |-> y - 1,
              week |-> ((ord - IsoWeek1Monday(y - 1)) \div 7) + 1,
              weekday |-> d]
        ELSE IF w >= 52 /\ ord >= IsoWeek1Monday(y + 1)
        THEN [year |-> y + 1, week |-> 1, weekday |-> d]
        ELSE [year |-> y, week |-> w + 1, weekday |-> d]

\* The number of ISO weeks of a year, as date.fromisocalendar counts them.
IsoWeeksInYear(y) ==
    LET firstweekday == (Ymd2Ord(y, 1, 1) + 6) % 7
    IN  IF firstweekday = 3 \/ (firstweekday = 2 /\ IsLeap(y)) THEN 53 ELSE 52

\* date.fromisocalendar(year, week, day)
FromIsoCalendar(y, w, d) ==
    IF y < 1 \/ y > 9999 THEN Raise("ValueError")
    ELSE IF w < 1 \/ w > 53 \/ (w = 53 /\ IsoWeeksInYear(y) # 53)
    THEN Raise("ValueError")
    ELSE IF d < 1 \/ d > 7 THEN Raise("ValueError")
    ELSE Ok(IsoWeek1Monday(y) + (w - 1) * 7 + (d - 1))

\* datetime.strptime(s, "%Y-%m-%d").date() of the string whose three number
\* fields are s[1], s[2], s[3]; a string of another shape is <<>>.
StrpDate(s) ==
    IF Len(s) # 3 THEN Raise("ValueError")
    ELSE IF s[1] < 1 \/ s[1] > 9999 \/ s[2] < 1 \/ s[2] > 12 THEN Raise("ValueError")
    ELSE IF s[3] < 1 \/ s[3] > DaysInMonth(s[1], s[2]) THEN Raise("ValueError")
    ELSE Ok(Ymd2Ord(s[1], s[2], s[3]))

---------------------------------------------------------------------------
(* Activity payload validator *)

\* A key the JSON object does not hold.
Absent == [k |-> "absent"]

\* dict.get(key): None for a key that is absent
Get(x) == IF x.k = "absent" THEN PyNone ELSE x

\* str.strip() of the strings of the model
Strip(s) ==
    CASE s = "  " -> ""
      [] s = " ALICE " -> "ALICE"
      [] s = " Fotboll " -> "Fotboll"
      [] OTHER -> s

\* [_norm_day(d) for d in days_raw]: the first failure raises
RECURSIVE NormDays(_)
NormDays(ds) ==
    IF ds = <<>> THEN Ok(<<>>)
    ELSE LET h == NormDay(ds[1]) IN
         IF ~h.ok THEN h
         ELSE LET t == NormDays(Tail(ds)) IN
              IF ~t.ok THEN t ELSE Ok(<<h.v>> \o t.v)

RECURSIVE MinOfSeq(_)
MinOfSeq(s) ==
    IF Len(s) = 1 THEN s[1]
    ELSE LET m == MinOfSeq(Tail(s)) IN IF s[1] <= m THEN s[1] ELSE m

\* The date of the earliest requested weekday of (year, week); ValueError
\* when date.fromisocalendar rejects the week.
StartDate(days, week, year) ==
    LET ds == [i \in 1..Len(days) |->
                  FromIsoCalendar(year, week, SV_TO_NUM(StripLower(days[i])))]
    IN  IF \E i \in 1..Len(ds) : ~ds[i].ok THEN Raise("ValueError")
        ELSE Ok(MinOfSeq([i \in 1..Len(ds) |-> ds[i].v]))

\* The recurringEndDate step of the validator (lines 178-188): the value
\* stored in the normalized activity is the parsed date object.
ValidateRecurringEnd(rec_end_raw, start_date) ==
    IF IsNone(rec_end_raw) THEN Ok(PyNone)
    ELSE IF ~IsStr(rec_end_raw) THEN Raise("ValueError")
    ELSE LET e == StrpDate(rec_end_raw.s) IN
         IF ~e.ok THEN Raise("ValueError")
         ELSE IF e.v < start_date THEN Raise("ValueError")
         ELSE Ok(PyDate(e.v))

\* A comparison that lets equal times through (start_t > end_t raises).
TimesOrderedLoose(start_t, end_t) == ~TimeLess(end_t, start_t)

\* The check of line 141: start_t >= end_t raises.
TimesOrdered(start_t, end_t) == TimeLess(start_t, end_t)

\* _validate_activity_payload(raw); uuid is the value uuid.uuid4() returns
\* if the payload gives no seriesId.  The key "date" is never read.
ValidateActivityPayload(p, uuid) ==
    LET name == Get(p.name)
        start_t == ParseTimeHHMM(Get(p.startTime))
        end_t == ParseTimeHHMM(Get(p.endTime))
        participants == IF p.participants.k = "absent" THEN PyList(<<>>)
                        ELSE p.participants
        sid == Get(p.seriesId)
        days_raw == IF p.days.k # "absent" THEN p.days ELSE PyList(<<Get(p.day)>>)
    IN
    IF ~IsStr(name) \/ Strip(name.s) = "" THEN Raise("ValueError")
    ELSE IF ~start_t.ok \/ ~end_t.ok THEN Raise("ValueError")
    ELSE IF ~TimesOrdered(start_t.v, end_t.v) THEN Raise("ValueError")
    ELSE IF ~IsList(participants) THEN Raise("ValueError")
    ELSE IF IsNone(days_raw) \/ (IsList(days_raw) /\ days_raw.l = <<>>)
         THEN Raise("ValueError")
    ELSE IF IsInt(days_raw) THEN Raise("TypeError")
    ELSE IF IsNone(days_raw.l[1]) THEN Raise("ValueError")
    ELSE LET days == NormDays(days_raw.l)
             week == RequireInt(Get(p.week))
             year == RequireInt(Get(p.year))
         IN
         IF ~days.ok \/ ~week.ok \/ ~year.ok THEN Raise("ValueError")
         ELSE LET start_date == StartDate(days.v, week.v, year.v) IN
              IF ~start_date.ok THEN Raise("ValueError")
              ELSE LET rec == ValidateRecurringEnd(Get(p.recurringEndDate),
                                                   start_date.v)
                   IN
                   IF ~rec.ok THEN Raise("ValueError")
                   ELSE Ok([name |-> Strip(name.s),
                            icon |-> Get(p.icon),
                            startTime |-> TimeToStr(start_t.v),
                            endTime |-> TimeToStr(end_t.v),
                            participants |-> participants.l,
                            seriesId |-> IF IsStr(sid) /\ sid.s # ""
                                         THEN sid.s ELSE uuid,
                            days |-> days.v,
                            week |-> week.v,
                            year |-> year.v,
                            recurringEndDate |-> rec.v])

---------------------------------------------------------------------------
(* Instance expander *)

\* {**base, "day": d, "week": w, "year": y}
Instance(v, d, w, y) ==
    [name |-> v.name, icon |-> v.icon, startTime |-> v.startTime,
     endTime |-> v.endTime, participants |-> v.participants,
     seriesId |-> v.seriesId, day |-> d, week |-> w, year |-> y]

\* A loop body without the guard of line 222.
PastEndNever(inst_date, end_date) == FALSE

\* The guard of line 222: a date after end_date is skipped.
PastEnd(inst_date, end_date) == inst_date > end_date

\* The same loop going through the days in calendar order.
RECURSIVE ExpandDaysInCalendarOrder(_, _, _, _)
ExpandDaysInCalendarOrder(v, days, current_monday, end_date) ==
    IF days = <<>> THEN <<>>
    ELSE LET k == CHOOSE i \in 1..Len(days) :
                      \A j \in 1..Len(days) :
                          SV_TO_NUM(StripLower(days[i]))
                              <= SV_TO_NUM(StripLower(days[j]))
             inst_date == current_monday + (SV_TO_NUM(StripLower(days[k])) - 1)
             iso == IsoCalendar(inst_date)
             rest == ExpandDaysInCalendarOrder(
                         v, SubSeq(days, 1, k - 1) \o SubSeq(days, k + 1, Len(days)),
                         current_monday, end_date)
         IN  IF PastEnd(inst_date, end_date) THEN rest
             ELSE <<Instance(v, days[k], iso.week, iso.year)>> \o rest

\* The body of the for loop of lines 219-225, for the week of current_monday.
RECURSIVE ExpandDays(_, _, _, _)
ExpandDays(v, days, current_monday, end_date) ==
    IF days = <<>> THEN <<>>
    ELSE LET d == days[1]
             inst_date == current_monday + (SV_TO_NUM(StripLower(d)) - 1)
             iso == IsoCalendar(inst_date)
             rest == ExpandDays(v, Tail(days), current_monday, end_date)
         IN  IF PastEnd(inst_date, end_date) THEN rest
             ELSE <<Instance(v, d, iso.week, iso.year)>> \o rest

\* The while loop of lines 218-226.
RECURSIVE ExpandWeeks(_, _, _)
ExpandWeeks(v, current_monday, end_date) ==
    IF current_monday <= end_date
    THEN ExpandDays(v, v.days, current_monday, end_date)
             \o ExpandWeeks(v, current_monday + 7, end_date)
    ELSE <<>>

\* _expand_instances(v).  recurringEndDate is None, a str or a date object;
\* datetime.strptime raises TypeError for an argument that is not a str.
ExpandInstances(v) ==
    IF ~IsNone(v.recurringEndDate)
    THEN LET start_monday == FromIsoCalendar(v.year, v.week, 1) IN
         IF ~start_monday.ok THEN Raise("ValueError")
         ELSE IF ~IsStr(v.recurringEndDate) THEN Raise("TypeError")
         ELSE LET end_date == StrpDate(v.recurringEndDate.s) IN
              IF ~end_date.ok THEN Raise("ValueError")
              ELSE Ok(ExpandWeeks(v, start_monday.v, end_date.v))
    ELSE Ok([i \in 1..Len(v.days) |-> Instance(v, v.days[i], v.week, v.year)])

---------------------------------------------------------------------------
(* Inputs of the validator and the expander *)

T905 == <<"9", ":", "0", "5">>
T1600 == <<"1", "6", ":", "0", "0">>
T1630 == <<"1", "6", ":", "3", "0">>
T1700 == <<"1", "7", ":", "0", "0">>
T1730 == <<"1", "7", ":", "3", "0">>
T1800 == <<"1", "8", ":", "0", "0">>
T2400 == <<"2", "4", ":", "0", "0">>
TNoColon == <<"1", "6", "0", "0">>
TLetters == <<"a", "b", ":", "c", "d">>

\* A payload: every key of the JSON object the validator reads, and "date".
Payload(name, st, et, parts, sid, icon, tm) ==
    [name |-> name, startTime |-> st, endTime |-> et, participants |-> parts,
     seriesId |-> sid, icon |-> icon,
     days |-> tm.days, day |-> tm.day, week |-> tm.week, year |-> tm.year,
     recurringEndDate |-> tm.recurringEndDate, date |-> tm.date]

\* The temporal part of a payload.
Temporal(days, day, week, year, rec, date) ==
    [days |-> days, day |-> day, week |-> week, year |-> year,
     recurringEndDate |-> rec, date |-> date]

DaysOf(names) == PyList([i \in 1..Len(names) |-> PyStr(names[i])])

PipeTimes ==
    {PyStr(T1600), PyStr(T1700), PyStr(T1730), PyStr(T1800), PyStr(T905),
     PyStr(T2400), PyStr(TLetters), PyNone}

PipeTemporals ==
    {\* recurring rules
     Temporal(DaysOf(<<"Måndag">>), Absent, PyInt(1), PyInt(2024),
              PyStr(<<2024, 1, 15>>), Absent),
     Temporal(DaysOf(<<"Fredag", "Måndag">>), Absent, PyInt(1), PyInt(2024),
              PyStr(<<2024, 1, 12>>), Absent),
     Temporal(DaysOf(<<"Onsdag">>), Absent, PyInt(1), PyInt(2024),
              PyStr(<<2024, 1, 3>>), Absent),
     Temporal(DaysOf(<<"Onsdag">>), Absent, PyInt(1), PyInt(2024),
              PyStr(<<2024, 1, 2>>), Absent),
     Temporal(DaysOf(<<"Måndag", "Söndag">>), Absent, PyInt(52), PyInt(2024),
              PyStr(<<2025, 1, 6>>), Absent),
     Temporal(DaysOf(<<"Måndag">>), Absent, PyInt(1), PyInt(2024),
              PyStr(<<>>), Absent),
     Temporal(DaysOf(<<"Måndag">>), Absent, PyInt(1), PyInt(2024),
              PyInt(20240115), Absent),
     \* explicit days, week and year
     Temporal(Absent, PyStr("Fredag"), PyInt(40), PyInt(2025), Absent, Absent),
     Temporal(Absent, PyStr(" fredag "), PyStr(<<"4", "0">>), PyInt(2025),
              Absent, PyStr(<<2025, 10, 3>>)),
     Temporal(DaysOf(<<"Lördag", "5">>), Absent, PyInt(40), PyInt(2025),
              Absent, Absent),
     Temporal(PyList(<<PyInt(1), PyInt(8)>>), Absent, PyInt(40), PyInt(2025),
              Absent, Absent),
     Temporal(Absent, PyStr("friday"), PyInt(40), PyInt(2025), Absent, Absent),
     Temporal(Absent, PyStr("Fredag"), PyInt(60), PyInt(2025), Absent, Absent),
     Temporal(Absent, PyStr("Fredag"), PyInt(40), Absent, Absent, Absent),
     Temporal(Absent, PyStr("Fredag"), PyStr(<<"x">>), PyInt(2025), Absent, Absent),
     Temporal(PyList(<<>>), Absent, PyInt(40), PyInt(2025), Absent, Absent),
     Temporal(PyInt(5), Absent, PyInt(40), PyInt(2025), Absent, Absent),
     \* an explicit date, without day, week or year
     Temporal(Absent, Absent, Absent, Absent, Absent, PyStr(<<2025, 10, 3>>))}

PipeNames == {PyStr("Fotboll"), PyStr(" Fotboll "), PyStr("  "), Absent}

PipePayloads ==
    {Payload(n, st, et, PyList(<<"Alice">>), Absent, PyStr("i1"), tm) :
        n \in PipeNames, st \in PipeTimes, et \in PipeTimes,
        tm \in PipeTemporals}

\* Normalized activities handed to the expander by a caller other than the
\* validator: a recurring rule whose recurringEndDate is the str.
DirectRules ==
    {[days |-> <<"Måndag">>, week |-> 1, year |-> 2024, end |-> <<2024, 1, 15>>],
     [days |-> <<"Måndag">>, week |-> 1, year |-> 2024, end |-> <<2024, 1, 14>>],
     [days |-> <<"Fredag", "Måndag">>, week |-> 1, year |-> 2024,
      end |-> <<2024, 1, 12>>],
     [days |-> <<"Fredag", "Måndag">>, week |-> 1, year |-> 2024,
      end |-> <<2024, 1, 10>>],
     [days |-> <<"Onsdag", "Söndag">>, week |-> 1, year |-> 2024,
      end |-> <<2024, 1, 3>>],
     [days |-> <<"Onsdag">>, week |-> 1, year |-> 2024, end |-> <<2024, 1, 2>>],
     [days |-> <<"Onsdag">>, week |-> 1, year |-> 2024, end |-> <<2023, 12, 20>>],
     [days |-> <<"Måndag", "Söndag">>, week |-> 52, year |-> 2024,
      end |-> <<2025, 1, 6>>],
     [days |-> <<"Torsdag">>, week |-> 53, year |-> 2026, end |-> <<2027, 1, 7>>],
     [days |-> <<"Torsdag">>, week |-> 1, year |-> 2024, end |-> <<2024, 2, 30>>],
     [days |-> <<"Torsdag">>, week |-> 53, year |-> 2024, end |-> <<2025, 1, 7>>]}

DirectNorms ==
    {[name |-> "Fotboll", icon |-> PyStr("i1"), startTime |-> st,
      endTime |-> T1800, participants |-> <<"Alice">>, seriesId |-> "s1",
      days |-> r.days, week |-> r.week, year |-> r.year,
      recurringEndDate |-> PyStr(r.end)] :
        r \in DirectRules, st \in {T1600, T1700}}

---------------------------------------------------------------------------
(* The validate-then-expand pipeline of a request (lines 432-436, 641-643) *)

StoreInit ==
    /\ members = {}
    /\ activities = {}
    /\ last = [op |-> "none"]
    /\ served = 0
    /\ reads = {}

PipeIdle ==
    /\ raw = PyNone
    /\ norm = PyNone
    /\ insts = PyNone
    /\ phase = "idle"

\* ai_postprocess is not in use
ResolveIdle ==
    /\ environ = PyNone
    /\ STRICT_UNKNOWN = PyNone
    /\ fm_list = <<>>
    /\ items = <<>>
    /\ mapped = PyNone
    /\ remapped = PyNone
    /\ rphase = "idle"

\* no request is inside the wrapper
RetryIdle == call = [state |-> "idle"]

PipeInit ==
    /\ StoreInit
    /\ ResolveIdle
    /\ RetryIdle
    /\ insts = PyNone
    /\ \/ raw \in PipePayloads /\ norm = PyNone /\ phase = "raw"
       \/ raw = PyNone /\ norm \in {Ok(v) : v \in DirectNorms} /\ phase = "norm"

\* v = _validate_activity_payload(payload)
Validate ==
    /\ phase = "raw"
    /\ norm' = ValidateActivityPayload(raw, "id1")
    /\ phase' = "validated"
    /\ UNCHANGED <<raw, insts>>
    /\ UNCHANGED <<storeVars, resolveVars, retryVars>>

\* instances = _expand_instances(v), reached only if the validator returned
Expand ==
    /\ phase \in {"validated", "norm"}
    /\ norm.ok
    /\ insts' = ExpandInstances(norm.v)
    /\ phase' = "expanded"
    /\ UNCHANGED <<raw, norm>>
    /\ UNCHANGED <<storeVars, resolveVars, retryVars>>

PipeNext == Validate \/ Expand

PipeSpec == PipeInit /\ [][PipeNext]_vars

---------------------------------------------------------------------------
(* The datastore session *)

\* The values uuid.uuid4() returns, modelled as fresh names: a call returns
\* the first name of the table that no row of the database or of the
\* session in use holds as an id or a series id.
ActUuids == <<"id1", "id2", "id3", "id4", "id5", "id6", "id7", "id8", "id9",
              "id10", "id11", "id12", "id13", "id14", "id15", "id16",
              "id17", "id18", "id19", "id20", "id21", "id22", "id23", "id24">>
MemUuids == <<"m1", "m2", "m3", "m4", "m5", "m6", "m7", "m8", "m9", "m10",
              "m11", "m12">>

\* The k-th name of table that is not in used.
Fresh(table, used, k) ==
    table[CHOOSE i \in 1..Len(table) :
              /\ table[i] \notin used
              /\ Cardinality({j \in 1..i : table[j] \notin used}) = k]

\* range(3) of retry_on_connection_error
MaxAttempts == 3

\* The database: the rows of family_member and of activity (each activity
\* row with the member ids its activity_participants rows give it).
Database(ms, as) == [m |-> ms, a |-> as]

\* db.session: db is what is committed, view what the open transaction sees
\* (and what a commit would make durable).
Session(db) == [db |-> db, view |-> db]

\* The outcome of a run of datastore operations: the exception raised
\* ("none" if none) and the session it leaves.
Done(s) == [exc |-> "none", s |-> s]
Fail(e, s) == [exc |-> e, s |-> s]

\* An add on a session in autocommit mode: the row is durable at once.
SessionAddAutocommit(s, row) ==
    [db |-> [s.db EXCEPT !.a = s.db.a \cup {row}],
     view |-> [s.view EXCEPT !.a = s.view.a \cup {row}]]

\* db.session.add(a) of an Activity
SessionAdd(s, row) == [s EXCEPT !.view.a = s.view.a \cup {row}]

\* Leaving the transaction with its pending rows written.
SessionRollbackWritten(s) == [db |-> s.view, view |-> s.view]

\* db.session.rollback(); also what the 500 handler and the teardown of
\* the request do to a session left uncommitted.
SessionRollback(s) == [s EXCEPT !.view = s.db]

\* A flush writes the pending rows: activity.icon is NOT NULL
\* (src/models/schedule_models.py line 28).
FlushFails(s) == \E r \in s.view.a \ s.db.a : IsNone(r.icon)

\* db.session.commit()
SessionCommit(s) ==
    IF FlushFails(s) THEN Fail("IntegrityError", s)
    ELSE Done([db |-> s.view, view |-> s.view])

Range(f) == {f[i] : i \in DOMAIN f}

\* FamilyMember.query.filter(FamilyMember.id.in_(participant_ids)).all():
\* the rows, of every user, whose id is in the list.
ResolveParticipants(ms, participant_ids) ==
    {m.id : m \in {x \in ms : x.id \in Range(participant_ids)}}

\* Activity(id=str(uuid.uuid4()), user_id=current_user.id, **inst_for_db)
\* The payloads of this module hold no location, notes or color, so
\* inst.get gives None for each (lines 453-455).
\* with a.participants.extend(resolved_participants)
NewActivity(id, user, inst, ms) ==
    [id |-> id, user_id |-> user, series_id |-> inst.seriesId,
     name |-> inst.name, icon |-> inst.icon,
     day |-> inst.day, week |-> inst.week, year |-> inst.year,
     start_time |-> inst.startTime, end_time |-> inst.endTime,
     location |-> PyNone, notes |-> PyNone, color |-> PyNone,
     participants |-> ResolveParticipants(ms, inst.participants)]

\* The loop over the instances (lines 442-467, 648-671) from the i-th on.
\* Datastore operation 1 is the roster query, operation 1 + i the
\* participant query of the i-th instance, which first flushes the rows
\* added before it; fault is the operation at which the connection fails
\* (0: at none), used the ids in use when the request began, c the number
\* of uuids the request drew before the loop.
RECURSIVE AddInstances(_, _, _, _, _, _, _)
AddInstances(s, user, instances, i, fault, used, c) ==
    IF i > Len(instances) THEN Done(s)
    ELSE IF fault = 1 + i THEN Fail("OperationalError", s)
    ELSE IF FlushFails(s) THEN Fail("IntegrityError", s)
    ELSE AddInstances(
             SessionAdd(s, NewActivity(Fresh(ActUuids, used, c + i), user,
                                       instances[i], s.view.m)),
             user, instances, i + 1, fault, used, c)

\* db.session.commit() of the batch, reached if the loop raised nothing:
\* r is what the loop gave, n the number of instances.
CommitBatch(r, n, fault) ==
    IF r.exc # "none" THEN r
    ELSE IF fault = n + 2 THEN Fail("OperationalError", r.s)
    ELSE SessionCommit(r.s)

\* Everything a handler does to the datastore for a batch of instances:
\* the roster query, the loop, the commit (operation Len(instances) + 2).
PersistBatch(s, user, instances, fault, used, c) ==
    IF fault = 1 THEN Fail("OperationalError", s)
    ELSE CommitBatch(AddInstances(s, user, instances, 1, fault, used, c),
                     Len(instances), fault)

---------------------------------------------------------------------------
(* Handlers: one attempt each *)

\* What one run of a handler gives: the exception that escapes it ("none"
\* if it returned), the HTTP status it returned (500 is what the
\* application answers to an exception), and the session it leaves.
Returned(status, s) == [exc |-> "none", status |-> status, s |-> s]
Escaped(e, s) == [exc |-> e, status |-> 500, s |-> s]

\* The ids and series ids of the rows a session holds.
UsedIds(s) ==
    {a.id : a \in s.db.a \cup s.view.a}
        \cup {a.series_id : a \in s.db.a \cup s.view.a}

\* instances = _expand_instances(v), v being what the validator gave: an
\* exception of the validator leaves the try block before the expander runs.
ExpandValidated(v) == IF v.ok THEN ExpandInstances(v.v) ELSE v

\* v = _validate_activity_payload(payload); _expand_instances(v), the
\* payload drawing the k-th uuid of the request for its series.
ValidateAndExpand(payload, used, k) ==
    ExpandValidated(ValidateActivityPayload(payload, Fresh(ActUuids, used, k)))

\* The answer of create_activity (lines 470-476), r being what the
\* datastore operations of lines 438-469 gave.
CreateResponse(r) ==
    IF r.exc = "none" THEN Returned(201, r.s) ELSE Escaped(r.exc, r.s)

\* create_activity after its try block (lines 432-436), e being the
\* instances or the exception of the block.
CreateExpanded(s, user, fault, used, e) ==
    IF ~e.ok
    THEN IF e.exc = "ValueError" THEN Returned(400, s) ELSE Escaped(e.exc, s)
    ELSE CreateResponse(PersistBatch(s, user, e.v, fault, used, 1))

\* create_activity (lines 427-476)
CreateActivityAttempt(s, user, payload, fault) ==
    CreateExpanded(s, user, fault, UsedIds(s),
                   ValidateAndExpand(payload, UsedIds(s), 1))

\* all_instances.extend(instances): e the instances of one activity, rest
\* those of the activities after it; the first exception ends the loop.
ExtendInstances(e, rest) ==
    IF ~e.ok THEN e
    ELSE IF ~rest.ok THEN rest
    ELSE Ok(e.v \o rest.v)

\* The loop of lines 640-643 from the k-th activity on: all_instances, or
\* the first exception.
RECURSIVE ValidateAll(_, _, _)
ValidateAll(payloads, k, used) ==
    IF k > Len(payloads) THEN Ok(<<>>)
    ELSE ExtendInstances(ValidateAndExpand(payloads[k], used, k),
                         ValidateAll(payloads, k + 1, used))

\* add_activities_from_json from line 645 on: the except clauses of lines
\* 676-681 answer 500 and roll back for any exception of the datastore.
ImportResponse(r) ==
    IF r.exc = "none" THEN Returned(201, r.s)
    ELSE Returned(500, SessionRollback(r.s))

\* add_activities_from_json after the loop of lines 640-643: ValueError
\* answers 400, any other exception rolls back and answers 500.
ImportExpanded(s, user, n, fault, used, e) ==
    IF ~e.ok
    THEN IF e.exc = "ValueError" THEN Returned(400, s)
         ELSE Returned(500, SessionRollback(s))
    ELSE ImportResponse(PersistBatch(s, user, e.v, fault, used, n))

\* add_activities_from_json (lines 630-681): every exception is caught
\* inside the handler.
AddActivitiesAttempt(s, user, payloads, fault) ==
    IF Len(payloads) = 0 THEN Returned(400, s)
    ELSE ImportExpanded(s, user, Len(payloads), fault, UsedIds(s),
                        ValidateAll(payloads, 1, UsedIds(s)))

\* A request body of update_activity or update_activity_series: every key
\* the handlers read.
UpdateData(name, icon, day, week, year, st, et, parts) ==
    [name |-> name, icon |-> icon, day |-> day, week |-> week, year |-> year,
     startTime |-> st, endTime |-> et, participants |-> parts,
     location |-> Absent, notes |-> Absent, color |-> Absent]

\* _time_to_str(t), t being what _parse_time_hhmm gave
RetimeParsed(t) == IF t.ok THEN Ok(TimeToStr(t.v)) ELSE t

\* _time_to_str(_parse_time_hhmm(value)) of a key that is present
Retime(x, old) ==
    IF x.k = "absent" THEN Ok(old) ELSE RetimeParsed(ParseTimeHHMM(x))

\* str(value).strip() or a.name
Rename(x, old) ==
    IF x.k = "absent" THEN old
    ELSE IF Strip(x.s) = "" THEN old ELSE Strip(x.s)

\* The ids of the list that are ids of the roster, added to the ones held.
ReplaceParticipantsMerging(x, old, ms, user) ==
    IF x.k = "absent" THEN old
    ELSE IF IsNone(x) THEN old
    ELSE old \cup {pid \in Range(x.l) :
                      \E m \in ms : m.id = pid /\ m.user_id = user}

\* a.participants.clear(), then the ids of the list that are ids of the
\* requesting user's roster (lines 509-515, 565-572)
ReplaceParticipants(x, old, ms, user) ==
    IF x.k = "absent" THEN old
    ELSE IF IsNone(x) THEN {}
    ELSE {pid \in Range(x.l) : \E m \in ms : m.id = pid /\ m.user_id = user}

\* The row a when the first invalid field raises: the assignments of the
\* lines before it are made (name, icon, day, week, year, startTime, in
\* the order of lines 489-502), the later ones are not.
AssignedBefore(a, data, day, week, year, st) ==
    [a EXCEPT
       !.name = Rename(data.name, a.name),
       !.icon = IF data.icon.k = "absent" THEN a.icon ELSE data.icon,
       !.day = IF day.ok THEN day.v ELSE a.day,
       !.week = IF day.ok /\ week.ok THEN week.v ELSE a.week,
       !.year = IF day.ok /\ week.ok /\ year.ok THEN year.v ELSE a.year,
       !.start_time = IF day.ok /\ week.ok /\ year.ok /\ st.ok
                      THEN st.v ELSE a.start_time]

\* The row a with the values the request gave, each already converted; if
\* one is invalid, the ValueError and the row as the session holds it.
Assigned(a, data, ms, user, day, week, year, st, et) ==
    IF ~day.ok \/ ~week.ok \/ ~year.ok \/ ~st.ok \/ ~et.ok
    THEN [ok |-> FALSE, exc |-> "ValueError",
          dirty |-> AssignedBefore(a, data, day, week, year, st)]
    ELSE Ok([a EXCEPT
               !.name = Rename(data.name, a.name),
               !.icon = IF data.icon.k = "absent" THEN a.icon ELSE data.icon,
               !.day = day.v, !.week = week.v, !.year = year.v,
               !.start_time = st.v, !.end_time = et.v,
               !.location = IF data.location.k = "absent" THEN a.location
                            ELSE data.location,
               !.notes = IF data.notes.k = "absent" THEN a.notes
                         ELSE data.notes,
               !.color = IF data.color.k = "absent" THEN a.color
                         ELSE data.color,
               !.participants =
                   ReplaceParticipants(data.participants, a.participants,
                                       ms, user)])

\* The assignments of update_activity (lines 489-515) to the row a: the
\* updated row, or the ValueError of the first field that is invalid.
\* start_time and end_time are assigned without being compared.
UpdateFields(a, data, ms, user) ==
    Assigned(a, data, ms, user,
             IF data.day.k = "absent" THEN Ok(a.day) ELSE NormDay(data.day),
             IF data.week.k = "absent" THEN Ok(a.week) ELSE RequireInt(data.week),
             IF data.year.k = "absent" THEN Ok(a.year) ELSE RequireInt(data.year),
             Retime(data.startTime, a.start_time),
             Retime(data.endTime, a.end_time))

\* The assignments of update_activity_series (lines 557-586) to one row of
\* the series: only the allowed keys are read.
SeriesFields(a, data, ms, user) ==
    Assigned(a, data, ms, user, Ok(a.day), Ok(a.week), Ok(a.year),
             Retime(data.startTime, a.start_time),
             Retime(data.endTime, a.end_time))

\* The answer to what db.session.commit() gave.
UpdateResponse(r) ==
    IF r.exc = "none" THEN Returned(200, r.s) ELSE Escaped(r.exc, r.s)

\* The rest of an update after its rows are changed in the session: the
\* roster query, if the body holds participants (operation 2, which
\* flushes the changed rows), and the commit (operation 3).
FinishUpdate(s, data, fault) ==
    IF data.participants.k # "absent" /\ fault = 2
    THEN Escaped("OperationalError", s)
    ELSE IF data.participants.k # "absent" /\ FlushFails(s)
    THEN Escaped("IntegrityError", s)
    ELSE IF fault = 3 THEN Escaped("OperationalError", s)
    ELSE UpdateResponse(SessionCommit(s))

\* The except clause answering 400 after the session is committed.
UpdateFoundCommitting(s, a, u, data, fault) ==
    IF ~u.ok
    THEN Returned(400, SessionCommit(
                           [s EXCEPT !.view.a = (s.view.a \ {a})
                                                \cup {u.dirty}]).s)
    ELSE FinishUpdate([s EXCEPT !.view.a = (s.view.a \ {a}) \cup {u.v}],
                      data, fault)

\* update_activity once the row a is found, u being the row with the
\* assignments made.  A ValueError returns 400 with the session as it is:
\* the row is changed in it up to the invalid field, and nothing commits.
UpdateFound(s, a, u, data, fault) ==
    IF ~u.ok
    THEN Returned(400, [s EXCEPT !.view.a = (s.view.a \ {a}) \cup {u.dirty}])
    ELSE FinishUpdate([s EXCEPT !.view.a = (s.view.a \ {a}) \cup {u.v}],
                      data, fault)

\* first_or_404() of the query for the row, found being the rows that match
UpdateQueried(s, user, found, data, fault) ==
    IF found = {} THEN Returned(404, s)
    ELSE UpdateFound(s, CHOOSE x \in found : TRUE,
                     UpdateFields(CHOOSE x \in found : TRUE, data,
                                  s.view.m, user),
                     data, fault)

\* update_activity (lines 482-520); req is [id, data].
UpdateActivityAttempt(s, user, req, fault) ==
    IF fault = 1 THEN Escaped("OperationalError", s)
    ELSE UpdateQueried(s, user,
                       {a \in s.view.a : a.id = req.id /\ a.user_id = user},
                       req.data, fault)

\* The first row of the series treated as update_activity treats its row.
SeriesQueriedAsOne(s, user, acts, data, fault) ==
    IF acts = {} THEN Returned(404, s)
    ELSE UpdateQueried(s, user, {CHOOSE a \in acts : TRUE}, data, fault)

\* update_activity_series from line 545 on, acts being the rows of the series
\* The first row of the series when a field of the body is invalid: the
\* keys are taken in the order of the body, here with the invalid one
\* last, so the participants are replaced and the valid fields assigned.
SeriesDirty(a, data, ms, user) ==
    [SeriesFields(a, data, ms, user).dirty EXCEPT
       !.participants = ReplaceParticipants(data.participants,
                                            a.participants, ms, user)]

SeriesQueried(s, user, acts, data, fault) ==
    IF acts = {} THEN Returned(404, s)
    ELSE IF \E a \in acts : ~SeriesFields(a, data, s.view.m, user).ok
    THEN Returned(400,
                  [s EXCEPT !.view.a =
                      (s.view.a \ {CHOOSE a \in acts : TRUE})
                      \cup {SeriesDirty(CHOOSE a \in acts : TRUE, data,
                                        s.view.m, user)}])
    ELSE FinishUpdate(
             [s EXCEPT !.view.a =
                 (s.view.a \ acts) \cup
                 {Assigned(a, data, s.view.m, user, Ok(a.day), Ok(a.week),
                           Ok(a.year), Retime(data.startTime, a.start_time),
                           Retime(data.endTime, a.end_time)).v : a \in acts}],
             data, fault)

\* update_activity_series (lines 538-611); req is [id, data], id being the
\* series id.
UpdateSeriesAttempt(s, user, req, fault) ==
    IF fault = 1 THEN Escaped("OperationalError", s)
    ELSE SeriesQueried(s, user,
                       {a \in s.view.a : a.series_id = req.id /\ a.user_id = user},
                       req.data, fault)

\* str.lower() of the strings of the model
LowerName(s) ==
    CASE s = "Alice" -> "alice"
      [] s = "ALICE" -> "alice"
      [] s = " ALICE " -> " alice "
      [] s = "Bob" -> "bob"
      [] s = "Rut" -> "rut"
      [] s = "Pim" -> "pim"
      [] s = "Siv" -> "siv"
      [] s = "Mamma" -> "mamma"
      [] s = "Pappa" -> "pappa"
      [] OTHER -> s

\* The same query comparing the names as they are written.
NameTakenExact(ms, user, name, exclude_id) ==
    \E m \in ms : /\ m.name = name
                  /\ m.user_id = user
                  /\ (Truthy(exclude_id) => m.id # exclude_id.s)

\* q.first() of _validate_member_name (lines 120-126): is there a member of
\* the user, other than exclude_id, whose lowercased name is the lowercased
\* name
NameTaken(ms, user, name, exclude_id) ==
    \E m \in ms : /\ LowerName(m.name) = LowerName(name)
                  /\ m.user_id = user
                  /\ (Truthy(exclude_id) => m.id # exclude_id.s)

\* _validate_member_name(name, user_id, exclude_id)
ValidateMemberNameExcluding(name, ms, user, exclude_id) ==
    IF ~IsStr(name) \/ Strip(name.s) = "" THEN Raise("ValueError")
    ELSE IF NameTaken(ms, user, Strip(name.s), exclude_id)
    THEN Raise("ValueError")
    ELSE Ok(Strip(name.s))

\* _validate_member_name(name, user_id), exclude_id being None
ValidateMemberName(name, ms, user) ==
    ValidateMemberNameExcluding(name, ms, user, PyNone)

\* The color and the icon of the POST /family-members requests of the
\* model; an icon is written as the code point of its emoji.
RequestColor == "#4E9FFF"
RequestIcon == "U+1F466"

\* FamilyMember(id=str(uuid.uuid4()), user_id=current_user.id, name=name,
\* color=color, icon=icon); the model class is taken to have the
\* display_order column that the routes pass and the migration
\* 297e74ec55ea adds.
NewMember(s, user, name) ==
    [id |-> Fresh(MemUuids, {m.id : m \in s.db.m \cup s.view.m}, 1),
     user_id |-> user, name |-> name, color |-> RequestColor,
     icon |-> RequestIcon]

\* create_family_member after the name is validated, n being what
\* _validate_member_name gave: the commit is operation 2.
MemberValidated(s, user, n, fault) ==
    IF ~n.ok THEN Returned(400, s)
    ELSE IF fault = 2 THEN Escaped("OperationalError", s)
    ELSE Returned(201,
             SessionCommit([s EXCEPT !.view.m =
                               s.view.m \cup {NewMember(s, user, n.v)}]).s)

\* create_family_member (lines 338-360) with a valid color and icon: the
\* name query is operation 1.
CreateMemberAttempt(s, user, name, fault) ==
    IF fault = 1 THEN Escaped("OperationalError", s)
    ELSE MemberValidated(s, user, ValidateMemberName(name, s.view.m, user),
                         fault)

\* default_members of get_family_members (lines 311-317)
DefaultMembers ==
    <<[name |-> "Rut", color |-> "#FF6B6B", icon |-> "U+1F467"],
      [name |-> "Pim", color |-> "#4E9FFF", icon |-> "U+1F466"],
      [name |-> "Siv", color |-> "#6BCF7F", icon |-> "U+1F467"],
      [name |-> "Mamma", color |-> "#A020F0", icon |-> "U+1F469"],
      [name |-> "Pappa", color |-> "#FF9F45", icon |-> "U+1F468"]>>

\* The rows that the loop of lines 318-326 adds.
DefaultRows(s, user) ==
    {[id |-> Fresh(MemUuids, {m.id : m \in s.db.m \cup s.view.m}, idx),
      user_id |-> user, name |-> DefaultMembers[idx].name,
      color |-> DefaultMembers[idx].color,
      icon |-> DefaultMembers[idx].icon] : idx \in DOMAIN DefaultMembers}

\* get_family_members (lines 308-331): the roster query is operation 1, the
\* commit of the default members operation 2.
GetMembersAttempt(s, user, fault) ==
    IF fault = 1 THEN Escaped("OperationalError", s)
    ELSE IF \E m \in s.view.m : m.user_id = user THEN Returned(200, s)
    ELSE IF fault = 2
    THEN Escaped("OperationalError",
                 [s EXCEPT !.view.m = s.view.m \cup DefaultRows(s, user)])
    ELSE Returned(200,
             SessionCommit([s EXCEPT !.view.m =
                               s.view.m \cup DefaultRows(s, user)]).s)

\* _validate_hex_color of the colors of the model: "#4E9FFF" and "#A020F0"
\* match ^#[0-9A-Fa-f]{6}$, "red" and None do not.
ValidHexColor(color) == IsStr(color) /\ color.s \in {"#4E9FFF", "#A020F0"}

\* The body of a PUT /family-members/<member_id> request.
MemberData(name, color) == [name |-> name, color |-> color]

\* update_family_member from line 376 on (the body of the model holds no
\* icon and no displayOrder): fm is the row as it was read, named the row
\* with the name assigned, commit the number of the commit operation.
MemberRecolored(s, fm, named, data, fault, commit) ==
    IF data.color.k # "absent" /\ ~ValidHexColor(data.color)
    THEN Returned(400, [s EXCEPT !.view.m = (s.view.m \ {fm}) \cup {named}])
    ELSE IF fault = commit
    THEN Escaped("OperationalError",
                 [s EXCEPT !.view.m = (s.view.m \ {fm}) \cup {named}])
    ELSE Returned(200,
             SessionCommit(
                 [s EXCEPT !.view.m =
                     (s.view.m \ {fm}) \cup
                     {IF data.color.k = "absent" THEN named
                      ELSE [named EXCEPT !.color = data.color.s]}]).s)

\* lines 372-375, n being what _validate_member_name gave
MemberRenamed(s, fm, n, data, fault) ==
    IF ~n.ok THEN Returned(400, s)
    ELSE MemberRecolored(s, fm, [fm EXCEPT !.name = n.v], data, fault, 3)

\* update_family_member from line 370 on, fm being the row that was found:
\* the name query is operation 2.
MemberFound(s, user, fm, data, fault) ==
    IF data.name.k = "absent" THEN MemberRecolored(s, fm, fm, data, fault, 2)
    ELSE IF fault = 2 THEN Escaped("OperationalError", s)
    ELSE MemberRenamed(s, fm,
                       ValidateMemberNameExcluding(data.name, s.view.m, user,
                                                   PyStr(fm.id)),
                       data, fault)

\* update_family_member (lines 366-388); req is [id, data].
UpdateMemberAttempt(s, user, req, fault) ==
    IF fault = 1 THEN Escaped("OperationalError", s)
    ELSE IF ~\E m \in s.view.m : m.id = req.id /\ m.user_id = user
    THEN Returned(404, s)
    ELSE MemberFound(s, user,
                     CHOOSE m \in s.view.m : m.id = req.id /\ m.user_id = user,
                     req.data, fault)

\* A member that is taken to have no activities.
MemberActivitiesNone(s, fm) == {}

\* fm.activities: the activities, of every user, that have an
\* activity_participants row for the member
MemberActivities(s, fm) == {a \in s.view.a : fm.id \in a.participants}

\* db.session.delete(fm) of a FamilyMember: the row and its
\* activity_participants rows go.
SessionDeleteMember(s, fm) ==
    [s EXCEPT !.view.m = s.view.m \ {fm},
              !.view.a = {[a EXCEPT !.participants = a.participants \ {fm.id}] :
                              a \in s.view.a}]

\* delete_family_member from line 398 on, fm being the row that was found:
\* loading fm.activities is operation 2, the commit operation 3.
MemberDeleted(s, fm, fault) ==
    IF fault = 2 THEN Escaped("OperationalError", s)
    ELSE IF MemberActivities(s, fm) # {} THEN Returned(409, s)
    ELSE IF fault = 3
    THEN Escaped("OperationalError", SessionDeleteMember(s, fm))
    ELSE Returned(204, SessionCommit(SessionDeleteMember(s, fm)).s)

\* delete_family_member (lines 394-402); req is the member id.
DeleteMemberAttempt(s, user, req, fault) ==
    IF fault = 1 THEN Escaped("OperationalError", s)
    ELSE IF ~\E m \in s.view.m : m.id = req /\ m.user_id = user
    THEN Returned(404, s)
    ELSE MemberDeleted(s, CHOOSE m \in s.view.m : m.id = req /\ m.user_id = user,
                       fault)

\* A delete that takes the participants of the deleted activities with it.
SessionDeleteCascading(s, acts) ==
    [s EXCEPT !.view.a = s.view.a \ acts,
              !.view.m = {m \in s.view.m :
                              \A a \in acts : m.id \notin a.participants}]

\* db.session.delete(a) of each Activity of acts: the rows and their
\* activity_participants rows go.
SessionDelete(s, acts) == [s EXCEPT !.view.a = s.view.a \ acts]

\* delete_activity from line 528 and delete_activity_series from line 619
\* on, acts being the rows that the query gave: the commit is operation 2.
ActivitiesDeleted(s, acts, fault) ==
    IF acts = {} THEN Returned(404, s)
    ELSE IF fault = 2 THEN Escaped("OperationalError", SessionDelete(s, acts))
    ELSE Returned(200, SessionCommit(SessionDelete(s, acts)).s)

\* delete_activity (lines 526-532); req is the activity id.
DeleteActivityAttempt(s, user, req, fault) ==
    IF fault = 1 THEN Escaped("OperationalError", s)
    ELSE ActivitiesDeleted(
             s, {a \in s.view.a : a.id = req /\ a.user_id = user}, fault)

\* delete_activity_series (lines 617-624); req is the series id.
DeleteSeriesAttempt(s, user, req, fault) ==
    IF fault = 1 THEN Escaped("OperationalError", s)
    ELSE ActivitiesDeleted(
             s, {a \in s.view.a : a.series_id = req /\ a.user_id = user},
             fault)

\* The "data" of the response to a delete request: success_response() gives
\* {}, success_response({"message": ...}) the message, error_response gives
\* None.  (The data of the other responses is not modelled.)
DeleteResponseData(op, status) ==
    IF op = "delete" /\ status = 200 THEN <<>>
    ELSE IF op = "deleteSeries" /\ status = 200
    THEN [message |-> "Activity series deleted successfully"]
    ELSE PyNone

\* _activity_to_dict(a)
ActivityToDict(a) ==
    [id |-> a.id, seriesId |-> a.series_id, name |-> a.name, icon |-> a.icon,
     day |-> a.day, week |-> a.week, year |-> a.year,
     startTime |-> a.start_time, endTime |-> a.end_time,
     location |-> a.location, notes |-> a.notes, color |-> a.color,
     participants |-> a.participants]

\* The rows of every user for the year and the week.
ActivitiesOfWeekAnyOwner(rows, user, year, week) ==
    {a \in rows : a.year = year /\ a.week = week}

\* Activity.query.filter_by(user_id=current_user.id, year=year, week=week)
ActivitiesOfWeek(rows, user, year, week) ==
    {a \in rows : a.user_id = user /\ a.year = year /\ a.week = week}

\* get_activities (lines 409-421); req is [year, week], the arguments of
\* the query string (each a str, or None when it is missing).  The query
\* is datastore operation 1.
GetActivitiesAttempt(s, user, req, fault) ==
    IF ~RequireInt(req.year).ok \/ ~RequireInt(req.week).ok
    THEN Returned(400, s)
    ELSE IF fault = 1 THEN Escaped("OperationalError", s)
    ELSE Returned(200, s)

\* The "data" of the response to get_activities: the dicts of the rows the
\* query gives (their order is the datastore's and is not modelled).
ListResponseData(user, req, rows) ==
    {ActivityToDict(a) :
         a \in ActivitiesOfWeek(rows, user, RequireInt(req.year).v,
                                RequireInt(req.week).v)}

\* The "data" of the response of the handler op answered with status, db
\* being the database when the request ends.
ResponseData(op, user, req, status, db) ==
    IF op = "list" /\ status = 200 THEN ListResponseData(user, req, db.a)
    ELSE DeleteResponseData(op, status)

---------------------------------------------------------------------------
(* The retry wrapper and the requests *)

\* func(*args, **kwargs) of the wrapped handler op
Attempt(op, s, user, req, fault) ==
    CASE op = "create" -> CreateActivityAttempt(s, user, req, fault)
      [] op = "import" -> AddActivitiesAttempt(s, user, req, fault)
      [] op = "update" -> UpdateActivityAttempt(s, user, req, fault)
      [] op = "updateSeries" -> UpdateSeriesAttempt(s, user, req, fault)
      [] op = "createMember" -> CreateMemberAttempt(s, user, req, fault)
      [] op = "getMembers" -> GetMembersAttempt(s, user, fault)
      [] op = "updateMember" -> UpdateMemberAttempt(s, user, req, fault)
      [] op = "deleteMember" -> DeleteMemberAttempt(s, user, req, fault)
      [] op = "delete" -> DeleteActivityAttempt(s, user, req, fault)
      [] op = "deleteSeries" -> DeleteSeriesAttempt(s, user, req, fault)
      [] op = "list" -> GetActivitiesAttempt(s, user, req, fault)

\* retry_on_connection_error: the attempt-th run of the handler and what
\* follows it.  faults[i] is the datastore operation at which the i-th run
\* loses the connection.  When the request is over, the teardown of the
\* request discards whatever the session holds uncommitted.
RECURSIVE RetryOnConnectionError(_, _, _, _, _, _)
RECURSIVE Retried(_, _, _, _, _, _)

\* A wrapper that never runs the handler again.
ShouldRetryNever(exc, attempt) == FALSE

\* Is the handler run again after its attempt-th run raised exc: the
\* except clause catches OperationalError only, and re-raises it in the
\* last round of range(3) (lines 32-41).
ShouldRetry(exc, attempt) ==
    exc = "OperationalError" /\ attempt < MaxAttempts

\* The except clause of the wrapper (lines 35-41), r being what the
\* attempt-th run gave.
Retried(op, user, req, faults, attempt, r) ==
    IF ShouldRetry(r.exc, attempt)
    THEN RetryOnConnectionError(op, SessionRollback(r.s).db, user, req,
                                faults, attempt + 1)
    ELSE [exc |-> r.exc, status |-> r.status, db |-> SessionRollback(r.s).db,
          attempts |-> attempt]

RetryOnConnectionError(op, db, user, req, faults, attempt) ==
    Retried(op, user, req, faults, attempt,
            Attempt(op, Session(db), user, req, faults[attempt]))

\* Bounds: the rows of activity, the rows of family_member, the requests
\* served.
MaxActivities == 2
MaxMembers == 6
MaxRequests == 3

\* The users that a roster read has answered 200, after the request.
ReadsAfter(op, user, status) ==
    IF op = "getMembers" /\ status = 200 THEN reads \cup {user} ELSE reads

\* The end of a request, of at most bound requests: r is what the wrapped
\* handler gave and data the "data" of the response.  The handlers of this
\* module compute no conflicts, and no response carries any.
RespondWithin(bound, op, user, req, r, data) ==
    /\ served < bound
    /\ Cardinality(r.db.a) <= MaxActivities
    /\ Cardinality(r.db.m) <= MaxMembers
    /\ members' = r.db.m
    /\ activities' = r.db.a
    /\ last' = [op |-> op, user |-> user, req |-> req,
                status |-> r.status, attempts |-> r.attempts,
                conflicts |-> {}, data |-> data]
    /\ served' = served + 1
    /\ reads' = ReadsAfter(op, user, r.status)
    /\ UNCHANGED <<pipeVars, resolveVars, retryVars>>

Respond(op, user, req, r) ==
    RespondWithin(MaxRequests, op, user, req, r,
                  ResponseData(op, user, req, r.status, r.db))

\* A request to a wrapped handler.
Request(op, user, req, faults) ==
    Respond(op, user, req,
            RetryOnConnectionError(op, Database(members, activities), user,
                                   req, faults, 1))

\* POST /activities
CreateActivity(user, payload, faults) ==
    Request("create", user, payload, faults)

\* POST /add-activities
AddActivitiesFromJson(user, payloads, faults) ==
    Request("import", user, payloads, faults)

\* PUT /activities/<activity_id>
UpdateActivity(user, id, data, faults) ==
    Request("update", user, [id |-> id, data |-> data], faults)

\* PUT /activities/series/<series_id>
UpdateActivitySeries(user, id, data, faults) ==
    Request("updateSeries", user, [id |-> id, data |-> data], faults)

\* POST /family-members
CreateFamilyMember(user, name, faults) ==
    Request("createMember", user, name, faults)

\* GET /family-members
GetFamilyMembers(user, faults) ==
    Request("getMembers", user, PyNone, faults)

\* PUT /family-members/<member_id>
UpdateFamilyMember(user, id, data, faults) ==
    Request("updateMember", user, [id |-> id, data |-> data], faults)

\* DELETE /family-members/<member_id>
DeleteFamilyMember(user, id, faults) ==
    Request("deleteMember", user, id, faults)

\* DELETE /activities/<activity_id>
DeleteActivity(user, id, faults) ==
    Request("delete", user, id, faults)

\* DELETE /activities/series/<series_id>
DeleteActivitySeries(user, id, faults) ==
    Request("deleteSeries", user, id, faults)

\* GET /activities?year=...&week=...
GetActivities(user, year, week, faults) ==
    Request("list", user, [year |-> year, week |-> week], faults)

---------------------------------------------------------------------------
(* The requests of the model *)

Fri40 == Temporal(Absent, PyStr("Fredag"), PyInt(40), PyInt(2025), Absent, Absent)
FriSat40 ==
    Temporal(DaysOf(<<"Fredag", "Lördag">>), Absent, PyInt(40), PyInt(2025),
             Absent, Absent)

PFootball ==
    Payload(PyStr("Fotboll"), PyStr(T1600), PyStr(T1700), PyList(<<"m1">>),
            Absent, PyStr("i1"), Fri40)
POverlap ==
    Payload(PyStr("Piano"), PyStr(T1630), PyStr(T1730), PyList(<<"m1", "m2">>),
            Absent, PyStr("i1"), Fri40)
PTwoDays ==
    Payload(PyStr("Fotboll"), PyStr(T1700), PyStr(T1800), PyList(<<"m2">>),
            PyStr("s1"), PyStr("i1"), FriSat40)
PUnordered ==
    Payload(PyStr("Fotboll"), PyStr(T1700), PyStr(T1600), PyList(<<"m1">>),
            Absent, PyStr("i1"), Fri40)
PNoIcon ==
    Payload(PyStr("Fotboll"), PyStr(T1600), PyStr(T1700), PyList(<<"m1">>),
            Absent, Absent, FriSat40)
PRecurring ==
    Payload(PyStr("Fotboll"), PyStr(T1600), PyStr(T1700), PyList(<<"m1">>),
            Absent, PyStr("i1"),
            Temporal(DaysOf(<<"Måndag">>), Absent, PyInt(1), PyInt(2024),
                     PyStr(<<2024, 1, 15>>), Absent))
PByName ==
    Payload(PyStr("Fotboll"), PyStr(T1600), PyStr(T1700), PyList(<<"Alice">>),
            Absent, PyStr("i1"), Fri40)
PDaysInt ==
    Payload(PyStr("Fotboll"), PyStr(T1600), PyStr(T1700), PyList(<<"m1">>),
            Absent, PyStr("i1"),
            Temporal(PyInt(5), Absent, PyInt(40), PyInt(2025), Absent, Absent))

\* The (user, body) pairs of the POST /activities requests.
CreateRequests ==
    ({"u1"} \X {PFootball, POverlap, PTwoDays, PUnordered, PNoIcon, PRecurring})
        \cup {<<"u2", PFootball>>}

\* The (user, body) pairs of the POST /add-activities requests.
ImportRequests ==
    {"u1"} \X {<<>>, <<PFootball, POverlap>>, <<PFootball, PDaysInt>>,
               <<PFootball, PUnordered>>}

NoUpdate == UpdateData(Absent, Absent, Absent, Absent, Absent, Absent, Absent, Absent)

\* The (user, body) pairs of the PUT /activities/<activity_id> requests.
UpdateRequests ==
    {<<"u1", [NoUpdate EXCEPT !.startTime = PyStr(T1800)]>>,
     <<"u1", [NoUpdate EXCEPT !.name = PyStr(" Fotboll "),
                              !.endTime = PyStr(TLetters)]>>,
     <<"u1", [NoUpdate EXCEPT !.participants = PyList(<<"m2", "m1">>)]>>,
     <<"u2", [NoUpdate EXCEPT !.day = PyInt(6), !.icon = PyNone]>>,
     <<"u1", [NoUpdate EXCEPT !.name = PyStr(" ALICE "),
                              !.startTime = PyStr(TNoColon)]>>,
     <<"u1", [NoUpdate EXCEPT !.participants = PyList(<<"m2">>)]>>}

\* The (user, body) pairs of the PUT /activities/series/<series_id> requests.
SeriesRequests ==
    {<<"u1", [NoUpdate EXCEPT !.endTime = PyStr(T1630)]>>,
     <<"u1", [NoUpdate EXCEPT !.participants = PyNone]>>,
     <<"u2", [NoUpdate EXCEPT !.startTime = PyStr(TNoColon)]>>,
     <<"u1", [NoUpdate EXCEPT !.participants = PyList(<<"m2">>),
                              !.endTime = PyStr(TLetters)]>>,
     <<"u1", [NoUpdate EXCEPT !.name = PyStr(" ALICE "),
                              !.icon = PyStr("U+1F3C0"),
                              !.startTime = PyStr(T905),
                              !.location = PyStr("Hallen"),
                              !.notes = PyStr("Skor"),
                              !.color = PyStr("#FF6B6B"),
                              !.day = PyStr("Lördag"),
                              !.week = PyInt(41),
                              !.year = PyInt(2026)]>>}

\* The (user, name) pairs of the POST /family-members requests.
MemberRequests ==
    {<<"u1", PyStr("Alice")>>, <<"u1", PyStr("  ")>>, <<"u2", PyStr("Bob")>>}

\* The datastore operation at which each run of the handler loses the
\* connection (0: it does not).
FaultPlans == {<<0, 0, 0>>, <<3, 2, 0>>, <<3, 4, 3>>}

ActivityIds == {a.id : a \in activities} \cup {"nope"}
SeriesIds == {a.series_id : a \in activities} \cup {"nope"}

Init == StoreInit /\ PipeIdle /\ ResolveIdle /\ RetryIdle

Next ==
    \/ \E c \in CreateRequests, f \in FaultPlans : CreateActivity(c[1], c[2], f)
    \/ \E c \in ImportRequests, f \in FaultPlans :
           AddActivitiesFromJson(c[1], c[2], f)
    \/ \E c \in UpdateRequests, id \in ActivityIds, f \in FaultPlans :
           UpdateActivity(c[1], id, c[2], f)
    \/ \E c \in SeriesRequests, id \in SeriesIds, f \in FaultPlans :
           UpdateActivitySeries(c[1], id, c[2], f)
    \/ \E c \in MemberRequests, f \in FaultPlans :
           CreateFamilyMember(c[1], c[2], f)

Spec == Init /\ [][Next]_vars

---------------------------------------------------------------------------
(* The roster requests and the delete requests *)

Users == {"u1", "u2"}

\* The (user, name) pairs of the POST /family-members requests.
RosterMemberRequests ==
    {<<"u1", PyStr("Alice")>>, <<"u1", PyStr(" ALICE ")>>,
     <<"u1", PyStr("Bob")>>, <<"u2", PyStr("Alice")>>}

\* The (user, body) pairs of the PUT /family-members/<member_id> requests.
RosterUpdateRequests ==
    {<<"u1", MemberData(PyStr("ALICE"), Absent)>>,
     <<"u1", MemberData(PyStr("Bob"), PyStr("red"))>>,
     <<"u1", MemberData(Absent, PyStr("#A020F0"))>>,
     <<"u2", MemberData(PyStr("Rut"), Absent)>>}

\* The (user, body) pairs of the POST /activities requests.
RosterCreateRequests ==
    {<<"u1", PFootball>>, <<"u1", PTwoDays>>, <<"u1", PByName>>,
     <<"u2", PFootball>>}

MemberIds == {m.id : m \in members} \cup {"nope"}

RosterNext ==
    \/ \E c \in RosterMemberRequests, f \in FaultPlans :
           CreateFamilyMember(c[1], c[2], f)
    \/ \E u \in Users, f \in FaultPlans : GetFamilyMembers(u, f)
    \/ \E c \in RosterUpdateRequests, id \in MemberIds, f \in FaultPlans :
           UpdateFamilyMember(c[1], id, c[2], f)
    \/ \E u \in Users, id \in MemberIds, f \in FaultPlans :
           DeleteFamilyMember(u, id, f)
    \/ \E c \in RosterCreateRequests, f \in FaultPlans :
           CreateActivity(c[1], c[2], f)
    \/ \E u \in Users, id \in ActivityIds, f \in FaultPlans :
           DeleteActivity(u, id, f)
    \/ \E u \in Users, id \in SeriesIds, f \in FaultPlans :
           DeleteActivitySeries(u, id, f)

RosterSpec == Init /\ [][RosterNext]_vars

---------------------------------------------------------------------------
(* The activity requests of two users *)

\* A one-day activity of the series s1.
PSeriesDay ==
    Payload(PyStr("Fotboll"), PyStr(T1600), PyStr(T1700), PyList(<<"m1">>),
            PyStr("s1"), PyStr("i1"), Fri40)

OwnerCreateRequests == {PFootball, PSeriesDay}

\* The (year, week) arguments of the GET /activities requests.
OwnerListRequests ==
    {<<PyStr(<<"2", "0", "2", "5">>), PyStr(<<"4", "0">>)>>,
     <<PyStr(<<"2", "0", "2", "5">>), PyNone>>}

\* The bodies of the PUT requests.
OwnerUpdates ==
    {[NoUpdate EXCEPT !.startTime = PyStr(T905), !.notes = PyStr("Skor")],
     [NoUpdate EXCEPT !.endTime = PyStr(TLetters)]}

OwnerFaultPlans == {<<0, 0, 0>>, <<1, 1, 1>>, <<1, 2, 0>>}

OwnerNext ==
    \/ \E u \in Users, p \in OwnerCreateRequests :
           CreateActivity(u, p, <<0, 0, 0>>)
    \/ \E u \in Users, q \in OwnerListRequests, f \in OwnerFaultPlans :
           GetActivities(u, q[1], q[2], f)
    \/ \E u \in Users, id \in ActivityIds, d \in OwnerUpdates,
          f \in OwnerFaultPlans :
           UpdateActivity(u, id, d, f)
    \/ \E u \in Users, id \in SeriesIds, d \in OwnerUpdates,
          f \in OwnerFaultPlans :
           UpdateActivitySeries(u, id, d, f)
    \/ \E u \in Users, id \in ActivityIds, f \in OwnerFaultPlans :
           DeleteActivity(u, id, f)
    \/ \E u \in Users, id \in SeriesIds, f \in OwnerFaultPlans :
           DeleteActivitySeries(u, id, f)

OwnerSpec == Init /\ [][OwnerNext]_vars

---------------------------------------------------------------------------
(* The roster of one user over more requests *)

\* Bound: the requests served when only the roster of u1 is followed.
MaxRosterRequests == 4

\* A request to a wrapped handler, among at most MaxRosterRequests.
RosterRequest(op, user, req, faults) ==
    LET r == RetryOnConnectionError(op, Database(members, activities), user,
                                    req, faults, 1)
    IN  RespondWithin(MaxRosterRequests, op, user, req, r,
                      ResponseData(op, user, req, r.status, r.db))

DefaultsFaultPlans == {<<0, 0, 0>>, <<1, 1, 1>>, <<2, 0, 0>>}

\* The requests of u1 to the roster: POST, GET and DELETE /family-members.
DefaultsNext ==
    \/ \E f \in DefaultsFaultPlans :
           RosterRequest("createMember", "u1", PyStr("Alice"), f)
    \/ \E f \in DefaultsFaultPlans :
           RosterRequest("getMembers", "u1", PyNone, f)
    \/ \E id \in MemberIds, f \in DefaultsFaultPlans :
           RosterRequest("deleteMember", "u1", id, f)

DefaultsSpec == Init /\ [][DefaultsNext]_vars

---------------------------------------------------------------------------
(* The roster read and the order of its response *)

\* The dict of a member in the response (line 330).
MemberToDict(m) == [id |-> m.id, name |-> m.name, color |-> m.color,
                    icon |-> m.icon]

\* FamilyMember.query.filter_by(user_id=current_user.id).all() has no
\* order_by: the rows come in an order the datastore chooses, any one of
\* the orders of the rows.
QueryOrders(rows) ==
    {ms \in [1..Cardinality(rows) -> rows] :
         \A i, j \in 1..Cardinality(rows) : ms[i] = ms[j] => i = j}

\* ms of get_family_members when the response is built: the rows in the
\* order of the query, or, if the query gave no row (before being the
\* roster before the request), the default members in the order in which
\* the loop of lines 318-326 appends them.
ListedOrders(before, after) ==
    IF before = {} /\ after # {}
    THEN {[idx \in DOMAIN DefaultMembers |->
               CHOOSE m \in after : m.name = DefaultMembers[idx].name]}
    ELSE QueryOrders(after)

\* Bound: the rows of a roster whose orders are followed.
MaxListed == 3

\* GET /family-members, with the list of the response
ListFamilyMembers(user, faults) ==
    LET r == RetryOnConnectionError("getMembers",
                                    Database(members, activities), user,
                                    PyNone, faults, 1)
    IN  /\ Cardinality({m \in members : m.user_id = user}) <= MaxListed
        /\ \E ms \in ListedOrders({m \in members : m.user_id = user},
                                   {m \in r.db.m : m.user_id = user}) :
               RespondWithin(MaxRosterRequests, "getMembers", user, PyNone, r,
                             IF r.status = 200
                             THEN [i \in DOMAIN ms |-> MemberToDict(ms[i])]
                             ELSE PyNone)

ListedNames == {"Charlie", "Bravo", "Alpha"}

ListingNext ==
    \/ \E u \in Users, n \in ListedNames :
           RosterRequest("createMember", u, PyStr(n), <<0, 0, 0>>)
    \/ \E u \in Users, f \in DefaultsFaultPlans : ListFamilyMembers(u, f)

ListingSpec == Init /\ [][ListingNext]_vars

---------------------------------------------------------------------------
(* The retry wrapper, one run of the handler at a time *)

\* The roster and delete requests that are followed through the wrapper:
\* (handler, user, request).
RosterCalls ==
    {<<"createMember", "u1", PyStr("Alice")>>,
     <<"getMembers", "u1", PyNone>>,
     <<"updateMember", "u1",
       [id |-> "m1", data |-> MemberData(PyStr("Bob"), Absent)]>>,
     <<"deleteMember", "u1", "m1">>,
     <<"delete", "u1", "id2">>}

\* All the requests that are followed through the wrapper.
RetryRequests ==
    RosterCalls
    \cup {<<"create", "u1", PFootball>>, <<"create", "u1", PNoIcon>>,
          <<"import", "u1", <<PFootball, POverlap>>>>}

\* The datastore operation at which each run loses the connection.
RetryFaultPlans ==
    {<<0, 0, 0>>, <<1, 0, 0>>, <<1, 1, 0>>, <<1, 1, 1>>, <<3, 2, 0>>,
     <<2, 2, 2>>}

\* Bound: the requests that are followed through the wrapper.
MaxCalls == 2

\* wrapper(*args, **kwargs) is entered (line 31); the first round of
\* range(3) is about to run.
RetryBegin(op, user, req, faults) ==
    /\ call.state = "idle"
    /\ served < MaxCalls
    /\ call' = [state |-> "running", op |-> op, user |-> user, req |-> req,
                faults |-> faults, attempt |-> 1,
                db |-> Database(members, activities), raised |-> <<>>,
                status |-> 0]
    /\ UNCHANGED <<storeVars, pipeVars, resolveVars>>

\* One round of the loop (lines 32-41), c being the request in the wrapper
\* and r what the run of the handler gave: the session is rolled back, and
\* the handler is run again or the wrapper is left.
RetryRound(c, r) ==
    [c EXCEPT
        !.state = IF ShouldRetry(r.exc, c.attempt) THEN "running" ELSE "done",
        !.attempt = IF ShouldRetry(r.exc, c.attempt)
                    THEN c.attempt + 1 ELSE c.attempt,
        !.db = SessionRollback(r.s).db,
        !.raised = Append(c.raised, r.exc),
        !.status = r.status]

\* return func(*args, **kwargs) of the round call.attempt
RetryRun ==
    /\ call.state = "running"
    /\ call' = RetryRound(call,
                          Attempt(call.op, Session(call.db), call.user,
                                  call.req, call.faults[call.attempt]))
    /\ UNCHANGED <<storeVars, pipeVars, resolveVars>>

\* The wrapper is left and the request is answered.
RetryEnd ==
    /\ call.state = "done"
    /\ Cardinality(call.db.a) <= MaxActivities
    /\ Cardinality(call.db.m) <= MaxMembers
    /\ members' = call.db.m
    /\ activities' = call.db.a
    /\ last' = [op |-> call.op, user |-> call.user, req |-> call.req,
                status |-> call.status, attempts |-> call.attempt,
                conflicts |-> {},
                data |-> DeleteResponseData(call.op, call.status)]
    /\ served' = served + 1
    /\ reads' = ReadsAfter(call.op, call.user, call.status)
    /\ call' = [state |-> "idle"]
    /\ UNCHANGED <<pipeVars, resolveVars>>

RetryNext ==
    \/ \E c \in RetryRequests, f \in RetryFaultPlans :
           RetryBegin(c[1], c[2], c[3], f)
    \/ RetryRun
    \/ RetryEnd

RetrySpec == Init /\ [][RetryNext]_vars

RetryFairNext ==
    \/ \E c \in RosterCalls, f \in RetryFaultPlans :
           RetryBegin(c[1], c[2], c[3], f)
    \/ RetryRun
    \/ RetryEnd

\* The loop of the wrapper runs on its own (for, try, sleep(0.5), continue:
\* lines 32-41), so a round that can run does run.
RetryFairSpec == Init /\ [][RetryFairNext]_vars /\ WF_vars(RetryRun)

---------------------------------------------------------------------------
(* Participant resolution of the AI import (src/services/ai_postprocess.py) *)

\* os.getenv("AI_PARSE_STRICT_UNKNOWN_PARTICIPANTS", "0") == "1" (line 20)
GetenvStrict(env) == (IF IsNone(env) THEN "0" ELSE env.s) = "1"

\* id_set (line 188)
IdSet(fm) ==
    {PyStrOf(fm[i].id) : i \in {j \in DOMAIN fm : ~IsNone(fm[j].id)}}

\* name_to_id.get(key) (lines 189-193, 213): the dict comprehension keeps,
\* for a key given by several members, the last of them.
NameToId(fm, key) ==
    LET hits == {i \in DOMAIN fm :
                     /\ Truthy(fm[i].name)
                     /\ LowerName(Strip(fm[i].name.s)) = key}
    IN IF hits = {} THEN PyNone
       ELSE PyStr(PyStrOf(fm[CHOOSE i \in hits : \A j \in hits : j <= i].id))

\* mapped.append(x) unless x is in mapped already
AppendNew(lst, x) ==
    IF \E i \in DOMAIN lst : lst[i] = x THEN lst ELSE Append(lst, x)

\* The name lookup of one identifier (lines 213-218).
LookupName(identifier, name_lookup, acc) ==
    IF Truthy(name_lookup)
    THEN [acc EXCEPT !.mapped = AppendNew(acc.mapped, name_lookup)]
    ELSE [acc EXCEPT !.unknowns = Append(acc.unknowns, identifier)]

\* The same, the name lookup coming before the id test.
MapIdentifierNameFirst(identifier, fm, acc) ==
    IF Truthy(NameToId(fm, LowerName(identifier)))
    THEN LookupName(identifier, NameToId(fm, LowerName(identifier)), acc)
    ELSE IF identifier \in IdSet(fm)
         THEN [acc EXCEPT !.mapped = AppendNew(acc.mapped, PyStr(identifier))]
         ELSE LookupName(identifier, PyNone, acc)

\* One non-empty identifier (lines 209-218): an id of the roster first, a
\* name of the roster otherwise.
MapIdentifier(identifier, fm, acc) ==
    IF identifier \in IdSet(fm)
    THEN [acc EXCEPT !.mapped = AppendNew(acc.mapped, PyStr(identifier))]
    ELSE LookupName(identifier, NameToId(fm, LowerName(identifier)), acc)

\* for participant in raw_participants (lines 203-218)
RECURSIVE MapReferences(_, _, _)
MapReferences(raw_participants, fm, acc) ==
    IF raw_participants = <<>> THEN acc
    ELSE IF \/ IsNone(Head(raw_participants))
            \/ Strip(PyStrOf(Head(raw_participants))) = ""
         THEN MapReferences(Tail(raw_participants), fm, acc)
         ELSE MapReferences(
                  Tail(raw_participants), fm,
                  MapIdentifier(Strip(PyStrOf(Head(raw_participants))), fm,
                                acc))

\* item.get("participants") or [] (line 200)
RawParticipants(item) ==
    IF IsNone(item.participants) THEN <<>> ELSE item.participants.l

\* for item in items (lines 197-225): the first item that has unknown
\* references raises when strict is set, and nothing is returned.
RECURSIVE MapItems(_, _, _, _)
MapItem(item, rest, fm, strict, results, acc) ==
    IF strict /\ acc.unknowns # <<>> THEN Raise("ValueError")
    ELSE MapItems(rest, fm, strict,
                  Append(results,
                         [item EXCEPT !.participants = PyList(acc.mapped)]))

MapItems(rest, fm, strict, results) ==
    IF rest = <<>> THEN Ok(results)
    ELSE MapItem(Head(rest), Tail(rest), fm, strict, results,
                 MapReferences(RawParticipants(Head(rest)), fm,
                               [mapped |-> <<>>, unknowns |-> <<>>]))

\* map_participants_to_ids(items, fm_list), STRICT_UNKNOWN being strict
MapParticipantsToIds(its, fm, strict) == MapItems(its, fm, strict, <<>>)

Member(id, name) == [id |-> PyStr(id), name |-> PyStr(name)]

Rosters ==
    { <<>>,
      <<Member("1", "Alice")>>,
      <<Member("1", "Alice"), Member("2", "Bob")>>,
      <<Member("1", "Alice"), Member("alice", "Bob")>> }

References ==
    {PyNone, PyStr("1"), PyStr("alice"), PyStr(" ALICE "), PyStr("zed"),
     PyStr("  ")}

MaxReferences == 2

ReferenceLists ==
    UNION {[1..n -> References] : n \in 0..MaxReferences}

Item(participants) == [name |-> "Fotboll", participants |-> participants]

ItemLists ==
    {<<Item(PyNone)>>}
    \cup {<<Item(PyList(l))>> : l \in ReferenceLists}
    \cup {<<Item(PyList(l)), Item(PyList(<<PyStr("zed")>>))>> :
              l \in ReferenceLists}

EnvValues == {PyNone, PyStr("0"), PyStr("1")}

ResolveInit ==
    /\ StoreInit
    /\ PipeIdle
    /\ RetryIdle
    /\ environ \in EnvValues
    /\ STRICT_UNKNOWN = PyNone
    /\ fm_list \in Rosters
    /\ items \in ItemLists
    /\ mapped = PyNone
    /\ remapped = PyNone
    /\ rphase = "start"

\* import services.ai_postprocess: line 20 runs once
ImportAiPostprocess ==
    /\ rphase = "start"
    /\ STRICT_UNKNOWN' = PyBool(GetenvStrict(environ))
    /\ rphase' = "loaded"
    /\ UNCHANGED <<environ, fm_list, items, mapped, remapped>>
    /\ UNCHANGED <<storeVars, pipeVars, retryVars>>

\* The environment variable is set by the process's owner, before or after
\* the import (monkeypatch.setenv of test_ai_parse_schedule.py, line 92).
SetEnv(v) ==
    /\ rphase \in {"start", "loaded"}
    /\ environ # v
    /\ environ' = v
    /\ UNCHANGED <<STRICT_UNKNOWN, fm_list, items, mapped, remapped, rphase>>
    /\ UNCHANGED <<storeVars, pipeVars, retryVars>>

\* mapped = map_participants_to_ids(expanded, fm_list) of normalize_and_align
\* (line 286); an exception leaves normalize_and_align as it is.
MapParticipants ==
    /\ rphase = "loaded"
    /\ mapped' = MapParticipantsToIds(items, fm_list, STRICT_UNKNOWN.b)
    /\ rphase' = "mapped"
    /\ UNCHANGED <<environ, STRICT_UNKNOWN, fm_list, items, remapped>>
    /\ UNCHANGED <<storeVars, pipeVars, retryVars>>

\* The entries that were returned are mapped once more.
MapAgain ==
    /\ rphase = "mapped"
    /\ mapped.ok
    /\ remapped' = MapParticipantsToIds(mapped.v, fm_list, STRICT_UNKNOWN.b)
    /\ rphase' = "remapped"
    /\ UNCHANGED <<environ, STRICT_UNKNOWN, fm_list, items, mapped>>
    /\ UNCHANGED <<storeVars, pipeVars, retryVars>>

ResolveNext ==
    \/ ImportAiPostprocess
    \/ \E v \in EnvValues : SetEnv(v)
    \/ MapParticipants
    \/ MapAgain

ResolveSpec == ResolveInit /\ [][ResolveNext]_vars

---------------------------------------------------------------------------
(* Normalization of the AI import (src/services/ai_postprocess.py) *)

\* An item of the AI's answer: a dict whose keys may be absent.  Dates are
\* date strings (the three number fields of YYYY-MM-DD; <<>> is the empty
\* string, <<0>> a string that is no date); week and year strings are
\* sequences of characters.
AiItem(name, st, et, parts, date, dates, day, days, week, year) ==
    [name |-> name, startTime |-> st, endTime |-> et, participants |-> parts,
     date |-> date, dates |-> dates, day |-> day, days |-> days,
     week |-> week, year |-> year]

SWEDISH_DAYS ==
    <<"Måndag", "Tisdag", "Onsdag", "Torsdag", "Fredag", "Lördag", "Söndag">>

\* The keys of _DAY_NORMALIZATION (lines 27-55), by the weekday they give.
DAY_NORMALIZATION ==
    <<{"mandag", "måndag", "mån", "monday"},
      {"tisdag", "tis", "tuesday"},
      {"onsdag", "ons", "wednesday"},
      {"torsdag", "tor", "tors", "thursday"},
      {"fredag", "fre", "fred", "friday"},
      {"lordag", "lördag", "lör", "lörs", "saturday"},
      {"sondag", "söndag", "sön", "sunday"}>>

\* _normalize_day_label.  Every string whose capitalize() is a weekday name
\* has its lower() among the keys, so the last line of the function gives
\* None whenever it is reached.
NormalizeDayLabel(day) ==
    IF ~IsStr(day) THEN PyNone
    ELSE IF Strip(day.s) = "" THEN PyNone
    ELSE IF \E i \in 1..7 : StripLower(day.s) \in DAY_NORMALIZATION[i]
    THEN PyStr(SWEDISH_DAYS[CHOOSE i \in 1..7 :
                                StripLower(day.s) \in DAY_NORMALIZATION[i]])
    ELSE PyNone

\* The int that int(value) gave, or None for the ValueError.
CoercedStr(r) == IF r.ok THEN PyInt(r.v) ELSE PyNone

\* _coerce_int of None, an int, a str or a list
CoerceInt(value) ==
    IF IsNone(value) \/ (IsStr(value) /\ value.s = <<>>) THEN PyNone
    ELSE IF IsInt(value) THEN value
    ELSE IF IsStr(value) THEN CoercedStr(PyIntOfStr(value.s))
    ELSE PyNone

\* _parse_date: a date is returned as it is; of a str, isoparse and parse
\* give the date of a YYYY-MM-DD string and raise ValueError for the other
\* strings of the model.
ParseDate(value) ==
    IF IsDate(value) THEN Ok(value.d)
    ELSE IF ~IsStr(value) THEN Raise("ValueError")
    ELSE StrpDate(value.s)

\* The components of the parsed date d, the year being d.year.
ComponentsCalendarYear(d) ==
    IF ~d.ok THEN d
    ELSE Ok([day_name |-> SWEDISH_DAYS[IsoCalendar(d.v).weekday],
             week |-> IsoCalendar(d.v).week,
             year |-> YearOfOrd(d.v)])

\* _date_components after _parse_date gave d (lines 79-81)
Components(d) ==
    IF ~d.ok THEN d
    ELSE Ok([day_name |-> SWEDISH_DAYS[IsoCalendar(d.v).weekday],
             week |-> IsoCalendar(d.v).week,
             year |-> IsoCalendar(d.v).year])

\* _date_components
DateComponents(value) == Components(ParseDate(value))

\* The loops over day labels (lines 149-153 without the test for
\* duplicates, lines 258-261 with it): the labels that normalize.
RECURSIVE DayLabels(_, _, _)
DayLabels(vals, acc, unique) ==
    IF vals = <<>> THEN acc
    ELSE IF IsNone(NormalizeDayLabel(Head(vals)))
    THEN DayLabels(Tail(vals), acc, unique)
    ELSE DayLabels(Tail(vals),
                   IF unique THEN AppendNew(acc, NormalizeDayLabel(Head(vals)))
                   ELSE Append(acc, NormalizeDayLabel(Head(vals))),
                   unique)

\* grouped after one more date with the components c (lines 135-138)
Grouped(grouped, c) ==
    IF \E i \in DOMAIN grouped :
           grouped[i].week = c.week /\ grouped[i].year = c.year
    THEN [i \in DOMAIN grouped |->
              IF grouped[i].week = c.week /\ grouped[i].year = c.year
              THEN [grouped[i] EXCEPT
                       !.days = AppendNew(@, PyStr(c.day_name))]
              ELSE grouped[i]]
    ELSE Append(grouped, [week |-> c.week, year |-> c.year,
                          days |-> <<PyStr(c.day_name)>>])

\* for raw_date in dates_value (lines 130-138): the dates that do not parse
\* are skipped; the keys of grouped keep the order of their first date.
RECURSIVE GroupDates(_, _)
GroupDates(raw_dates, grouped) ==
    IF raw_dates = <<>> THEN grouped
    ELSE IF ~DateComponents(Head(raw_dates)).ok
    THEN GroupDates(Tail(raw_dates), grouped)
    ELSE GroupDates(Tail(raw_dates),
                    Grouped(grouped, DateComponents(Head(raw_dates)).v))

\* entry = dict(base) with days, week and year set (or left absent)
Entry(item, days, week, year) ==
    [name |-> item.name, startTime |-> item.startTime,
     endTime |-> item.endTime, participants |-> item.participants,
     days |-> days, week |-> week, year |-> year]

\* if date_value: of None or a date string
TruthyDate(x) == ~IsNone(x) /\ ~(IsStr(x) /\ x.s = <<>>)

\* candidate_days (lines 148-162)
CandidateDays(days_value, day_value) ==
    LET listed == IF IsList(days_value)
                  THEN DayLabels(days_value.l, <<>>, FALSE)
                  ELSE IF IsStr(days_value)
                  THEN DayLabels(<<days_value>>, <<>>, FALSE)
                  ELSE <<>>
    IN  IF Truthy(day_value) /\ ~IsNone(NormalizeDayLabel(day_value))
        THEN AppendNew(listed, NormalizeDayLabel(day_value))
        ELSE listed

\* week_num and year_num of lines 168-173
WithDefault(value, default) ==
    IF IsNone(CoerceInt(value)) /\ ~IsNone(default) THEN CoerceInt(default)
    ELSE CoerceInt(value)

\* An entry of the last branch (lines 164-179): a key is set only if there
\* is a value for it.
Defaulted(item, days, week, year) ==
    Entry(item,
          IF days = <<>> THEN Absent ELSE PyList(days),
          IF IsNone(week) THEN Absent ELSE week,
          IF IsNone(year) THEN Absent ELSE year)

\* The entries one item gives (the body of the loop, lines 105-179).
ExpandItem(item, default_week, default_year) ==
    IF TruthyDate(Get(item.date))
    THEN IF DateComponents(Get(item.date)).ok
         THEN <<Entry(item,
                      PyList(<<PyStr(DateComponents(item.date).v.day_name)>>),
                      PyInt(DateComponents(item.date).v.week),
                      PyInt(DateComponents(item.date).v.year))>>
         ELSE <<>>
    ELSE IF IsList(Get(item.dates)) /\ GroupDates(item.dates.l, <<>>) # <<>>
    THEN [i \in DOMAIN GroupDates(item.dates.l, <<>>) |->
              Entry(item, PyList(GroupDates(item.dates.l, <<>>)[i].days),
                    PyInt(GroupDates(item.dates.l, <<>>)[i].week),
                    PyInt(GroupDates(item.dates.l, <<>>)[i].year))]
    ELSE <<Defaulted(item, CandidateDays(Get(item.days), Get(item.day)),
                     WithDefault(Get(item.week), default_week),
                     WithDefault(Get(item.year), default_year))>>

\* expand_dates_to_week_schema
RECURSIVE ExpandDatesToWeekSchema(_, _, _)
ExpandDatesToWeekSchema(its, default_week, default_year) ==
    IF its = <<>> THEN <<>>
    ELSE ExpandItem(Head(its), default_week, default_year)
             \o ExpandDatesToWeekSchema(Tail(its), default_week, default_year)

\* A name that is a str and not empty.
ValidNameUnstripped(name) == IsStr(name) /\ name.s # ""

\* isinstance(name, str) and name.strip() (line 248)
ValidName(name) == IsStr(name) /\ Strip(name.s) # ""

\* The entry of an item that passed the tests, normalized_days being its
\* days (lines 266-273).
Required(item, normalized_days) ==
    [name |-> PyStr(Strip(item.name.s)),
     startTime |-> PyStr(Strip(item.startTime.s)),
     endTime |-> PyStr(Strip(item.endTime.s)),
     participants |->
         PyList([i \in DOMAIN item.participants.l |->
                     PyStr(PyStrOf(item.participants.l[i]))]),
     days |-> PyList(normalized_days),
     week |-> CoerceInt(item.week),
     year |-> CoerceInt(item.year)]

\* The body of the loop of ensure_required_fields (lines 235-274): the
\* entry of the item, or nothing.
EnsureItem(item) ==
    IF \E k \in {item.name.k, item.startTime.k, item.endTime.k,
                 item.participants.k, item.days.k, item.week.k,
                 item.year.k} : k = "absent"
    THEN <<>>
    ELSE IF ~ValidName(item.name) THEN <<>>
    ELSE IF ~IsStr(item.startTime) \/ ~IsStr(item.endTime) THEN <<>>
    ELSE IF ~IsList(item.participants) THEN <<>>
    ELSE IF ~IsList(item.days) \/ item.days.l = <<>> THEN <<>>
    ELSE IF \/ DayLabels(item.days.l, <<>>, TRUE) = <<>>
            \/ IsNone(CoerceInt(item.week))
            \/ IsNone(CoerceInt(item.year))
    THEN <<>>
    ELSE <<Required(item, DayLabels(item.days.l, <<>>, TRUE))>>

\* ensure_required_fields
RECURSIVE EnsureRequiredFields(_)
EnsureRequiredFields(its) ==
    IF its = <<>> THEN <<>>
    ELSE EnsureItem(Head(its)) \o EnsureRequiredFields(Tail(its))

\* ensure_required_fields(mapped) of line 287, mapped being what
\* map_participants_to_ids gave or the ValueError it raised.
Ensured(mapped_items) ==
    IF mapped_items.ok THEN Ok(EnsureRequiredFields(mapped_items.v))
    ELSE mapped_items

\* The entries as map_participants_to_ids reads them: item.get of the
\* participants (line 200).
WithParticipants(expanded) ==
    [i \in DOMAIN expanded |->
         [expanded[i] EXCEPT !.participants = Get(@)]]

\* normalize_and_align, STRICT_UNKNOWN being strict
NormalizeAndAlign(its, fm, default_week, default_year, strict) ==
    Ensured(MapParticipantsToIds(
                WithParticipants(
                    ExpandDatesToWeekSchema(its, default_week, default_year)),
                fm, strict))

\* The date strings of the model.
D20251003 == PyStr(<<2025, 10, 3>>)
D20251004 == PyStr(<<2025, 10, 4>>)
D20251006 == PyStr(<<2025, 10, 6>>)
D20241230 == PyStr(<<2024, 12, 30>>)
D20250230 == PyStr(<<2025, 2, 30>>)

\* [date, dates, day, days, week, year] of the items of the model.
AiTemporals ==
    {<<D20251003, Absent, Absent, Absent, Absent, Absent>>,
     <<D20251003, Absent, PyStr("Måndag"),
       PyList(<<PyStr("Tisdag")>>), PyInt(1), PyInt(2024)>>,
     <<D20241230, Absent, Absent, Absent, Absent, Absent>>,
     <<D20250230, Absent, Absent, PyList(<<PyStr("Måndag")>>), PyInt(1),
       PyInt(2025)>>,
     <<PyStr(<<0>>), Absent, Absent, Absent, Absent, Absent>>,
     <<Absent, PyList(<<D20251003, D20251004, D20250230, D20251003,
                        D20251006>>),
       Absent, Absent, Absent, Absent>>,
     <<Absent, Absent, Absent,
       PyList(<<PyStr("fre"), PyStr("Fredag"), PyStr(" fredag "), PyInt(3),
                PyStr("xyz"), PyStr("monday")>>),
       PyStr(<<"4", "0">>), PyInt(2025)>>,
     <<Absent, Absent, PyStr("FREDAG"), Absent, Absent, Absent>>,
     <<Absent, Absent, Absent, PyList(<<>>), PyInt(40), PyInt(2025)>>,
     <<Absent, Absent, Absent, PyStr("sunday"), PyStr(<<"x">>), PyNone>>,
     <<PyStr(<<>>), PyNone, PyNone, PyList(<<PyStr("Måndag")>>), PyInt(1),
       PyInt(2025)>>}

AiNames ==
    {PyStr("Fotboll"), PyStr(" Fotboll "), PyStr(""), PyStr("  "), PyNone,
     Absent}

\* [startTime, endTime, participants] of the items of the model.
AiDetails ==
    {<<PyStr("16:00"), PyStr("17:30"),
       PyList(<<PyStr("alice"), PyStr("2"), PyStr("zed")>>)>>,
     <<PyStr("16:00"), PyStr("17:30"), PyNone>>,
     <<PyStr("16:00"), PyStr("17:30"), Absent>>,
     <<PyNone, PyStr("17:30"), PyList(<<PyStr("2")>>)>>,
     <<PyStr("16:00"), Absent, PyList(<<PyStr("2")>>)>>}

AiItems ==
    {AiItem(n, d[1], d[2], d[3], t[1], t[2], t[3], t[4], t[5], t[6]) :
         n \in AiNames, d \in AiDetails, t \in AiTemporals}

\* A complete item of another name, with its days or with a date.
Swimming(date, days) ==
    AiItem(PyStr("Simning"), PyStr("10:00"), PyStr("11:00"),
           PyList(<<PyStr("1")>>), date, Absent, Absent, days, PyInt(1),
           PyInt(2025))

AiItemLists ==
    {<<x>> : x \in AiItems}
    \cup {<<x, Swimming(Absent, PyList(<<PyStr("Måndag")>>))>> : x \in AiItems}
    \cup {<<Swimming(D20241230, Absent), x>> : x \in AiItems}

\* default_week and default_year of the calls.
AiDefaults == {<<PyNone, PyNone>>, <<PyInt(7), PyInt(2026)>>}

NormalizeInit ==
    /\ StoreInit
    /\ PipeIdle
    /\ RetryIdle
    /\ environ \in {PyNone, PyStr("1")}
    /\ STRICT_UNKNOWN = PyNone
    /\ fm_list = <<Member("1", "Alice"), Member("2", "Bob")>>
    /\ items \in AiItemLists
    /\ mapped = PyNone
    /\ remapped = PyNone
    /\ rphase = "start"

\* normalize_and_align(items, fm_list, default_week, default_year)
Normalize(default_week, default_year) ==
    /\ rphase = "loaded"
    /\ mapped' = NormalizeAndAlign(items, fm_list, default_week, default_year,
                                   STRICT_UNKNOWN.b)
    /\ rphase' = "normalized"
    /\ UNCHANGED <<environ, STRICT_UNKNOWN, fm_list, items, remapped>>
    /\ UNCHANGED <<storeVars, pipeVars, retryVars>>

NormalizeNext ==
    \/ ImportAiPostprocess
    \/ \E d \in AiDefaults : Normalize(d[1], d[2])

NormalizeSpec == NormalizeInit /\ [][NormalizeNext]_vars

---------------------------------------------------------------------------
(* Properties of the validator and the expander (under PipeSpec) *)

\* The pipeline was given a raw payload, and the validator has run on it.
Validated == phase \in {"validated", "expanded"} /\ raw # PyNone

\* The calendar date of an instance: weekday d of ISO week w of ISO year y.
DateOfInstance(inst) ==
    FromIsoCalendar(inst.year, inst.week, SV_TO_NUM(StripLower(inst.day))).v

\* The date a recurringEndDate, a str or a date object, denotes.
EndOrdinal(x) == IF IsDate(x) THEN x.d ELSE StrpDate(x.s).v

\* The expander has run on a recurring rule whose end date is a date.
ExpandedRecurring ==
    /\ phase = "expanded"
    /\ ~IsNone(norm.v.recurringEndDate)
    /\ IsDate(norm.v.recurringEndDate) \/ StrpDate(norm.v.recurringEndDate.s).ok

\* C6: for every recurring rule whose recurringEndDate is on or after the
\* start date (the earliest requested weekday of the given week and year),
\* every instance the expander emits is dated on one of the requested
\* weekdays and within [start date, recurringEndDate], both ends included.
C6_InstancesWithinRange ==
    (/\ ExpandedRecurring
     /\ insts.ok
     /\ StartDate(norm.v.days, norm.v.week, norm.v.year).ok
     /\ StartDate(norm.v.days, norm.v.week, norm.v.year).v
            <= EndOrdinal(norm.v.recurringEndDate))
    => \A i \in 1..Len(insts.v) :
           /\ \E j \in 1..Len(norm.v.days) : insts.v[i].day = norm.v.days[j]
           /\ IsoCalendar(DateOfInstance(insts.v[i])).weekday
                  = SV_TO_NUM(StripLower(insts.v[i].day))
           /\ StartDate(norm.v.days, norm.v.week, norm.v.year).v
                  <= DateOfInstance(insts.v[i])
           /\ DateOfInstance(insts.v[i]) <= EndOrdinal(norm.v.recurringEndDate)

\* The rule Fredag and Måndag of week 1 of 2024 until Wednesday 2024-01-10
\* is expanded to Friday the 5th and the Mondays 1st and 8th: the Friday of
\* the last week, the 12th, is past the end date and skipped.
C6_Witness ==
    /\ phase = "expanded"
    /\ norm.v.days = <<"Fredag", "Måndag">>
    /\ norm.v.recurringEndDate = PyStr(<<2024, 1, 10>>)
    /\ insts.ok
    /\ Len(insts.v) = 3
    /\ \E i \in 1..3 : insts.v[i].day = "Måndag" /\ insts.v[i].week = 2

\* The dates from the Monday of the start week through end that fall on
\* one of the requested weekdays.
Occurrences(v, end) ==
    {d \in FromIsoCalendar(v.year, v.week, 1).v .. end :
        \E j \in 1..Len(v.days) :
            SV_TO_NUM(StripLower(v.days[j])) = IsoWeekday(d)}

\* C7: a recurring payload that the validator accepts and hands to the
\* expander yields one instance for every requested weekday of every week
\* from the start week through recurringEndDate, the end date included
\* (Måndag of week 1 of 2024 until 2024-01-15: the three Mondays 1st, 8th
\* and 15th of January).
C7_ValidatedRuleExpands ==
    (/\ phase = "expanded"
     /\ raw # PyNone
     /\ ~IsNone(norm.v.recurringEndDate))
    => /\ insts.ok
       /\ Len(insts.v)
              = Cardinality(Occurrences(norm.v,
                                        EndOrdinal(norm.v.recurringEndDate)))
       /\ {DateOfInstance(insts.v[i]) : i \in 1..Len(insts.v)}
              = Occurrences(norm.v, EndOrdinal(norm.v.recurringEndDate))

\* Both times of the raw payload parse and the start is before the end.
StartBeforeEnd ==
    /\ ParseTimeHHMM(Get(raw.startTime)).ok
    /\ ParseTimeHHMM(Get(raw.endTime)).ok
    /\ TimeLess(ParseTimeHHMM(Get(raw.startTime)).v,
                ParseTimeHHMM(Get(raw.endTime)).v)

\* C8: the validator fails with a validation error (ValueError), and
\* returns no normalized activity, for every payload whose startTime is not
\* strictly earlier than its endTime, equal times included, whatever the
\* other fields hold.
C8_UnorderedTimesRejected ==
    (Validated /\ ~StartBeforeEnd) => (~norm.ok /\ norm.exc = "ValueError")

\* A payload valid in every other field, with startTime = endTime = 17:00,
\* has been rejected.
C8_Witness ==
    /\ phase = "validated"
    /\ raw.name = PyStr("Fotboll")
    /\ raw.startTime = PyStr(T1700)
    /\ raw.endTime = PyStr(T1700)
    /\ raw.day = PyStr("Fredag")
    /\ raw.week = PyInt(40)
    /\ raw.year = PyInt(2025)
    /\ ~norm.ok

\* The raw payload gives an explicit ISO date and no day, days, week or
\* year, and is valid in its name and times.
ExplicitDateOnly ==
    /\ Validated
    /\ IsStr(raw.date) /\ StrpDate(raw.date.s).ok
    /\ raw.days = Absent /\ raw.day = Absent
    /\ raw.week = Absent /\ raw.year = Absent
    /\ IsStr(raw.name) /\ Strip(raw.name.s) # ""
    /\ StartBeforeEnd

\* C10: the validator accepts a payload that gives its temporal
\* specification as an explicit ISO date without day, week or year, and
\* converts the date into its weekday name, ISO week and ISO year
\* (2025-10-03: Fredag, week 40, year 2025).
C10_ExplicitDateAccepted ==
    ExplicitDateOnly
    => /\ norm.ok
       /\ norm.v.days
              = <<SV_WEEKDAYS[IsoCalendar(StrpDate(raw.date.s).v).weekday]>>
       /\ norm.v.week = IsoCalendar(StrpDate(raw.date.s).v).week
       /\ norm.v.year = IsoCalendar(StrpDate(raw.date.s).v).year

---------------------------------------------------------------------------
(* Properties of the requests (under Spec) *)

\* Minutes since midnight of a stored "HH:MM" time.
MinuteOfDay(t) ==
    60 * ParseTimeHHMM(PyStr(t)).v.hour + ParseTimeHHMM(PyStr(t)).v.minute

Max2(a, b) == IF a >= b THEN a ELSE b
Min2(a, b) == IF a <= b THEN a ELSE b

\* The conflict relation of spec.md: same year, week and day, a shared
\* participant, and time ranges that overlap as half-open intervals.
InConflict(n, e) ==
    /\ n.year = e.year /\ n.week = e.week /\ n.day = e.day
    /\ n.participants \cap e.participants # {}
    /\ Max2(MinuteOfDay(n.start_time), MinuteOfDay(e.start_time))
           < Min2(MinuteOfDay(n.end_time), MinuteOfDay(e.end_time))

\* The step is a create or an import request.
BatchRequest == served' # served /\ last'.op \in {"create", "import"}

\* What validating and expanding the body of a create or import request
\* gives: its instances, or the exception.
RequestInstances(op, req) ==
    IF op = "create" THEN ValidateAndExpand(req, {}, 1)
    ELSE ValidateAll(req, 1, {})

\* The rows the request would add, before they are given ids.
RequestRows(op, user, req, ms) ==
    IF RequestInstances(op, req).ok
    THEN {NewActivity("new", user, RequestInstances(op, req).v[i], ms) :
              i \in 1..Len(RequestInstances(op, req).v)}
    ELSE {}

\* C1: a create or import request with at least one new instance that
\* conflicts with an instance already stored for the same user is rejected
\* with the conflicts reported, and the activity store is the same after
\* the request as before it.
C1_ConflictingBatchRejected ==
    [][(/\ BatchRequest
        /\ \E n \in RequestRows(last'.op, last'.user, last'.req, members),
              e \in activities :
               e.user_id = last'.user /\ InConflict(n, e))
       => (/\ activities' = activities
           /\ last'.status # 201
           /\ last'.conflicts # {})]_vars

\* C2: for every new instance n of a batch and every stored instance e of
\* the same user, exactly one conflict record is reported for the pair
\* (n, e) when they are in conflict, and none when they are not (their
\* participant sets disjoint or empty, whatever their time ranges).
C2_OneRecordPerConflict ==
    [][BatchRequest
       => \A n \in RequestRows(last'.op, last'.user, last'.req, members),
             e \in {x \in activities : x.user_id = last'.user} :
              Cardinality({c \in last'.conflicts :
                               c.new = n /\ c.existing = e.id})
                  = IF InConflict(n, e) THEN 1 ELSE 0]_vars

\* A row is the row of an instance.
RowOf(r, inst) ==
    /\ r.name = inst.name /\ r.icon = inst.icon
    /\ r.day = inst.day /\ r.week = inst.week /\ r.year = inst.year
    /\ r.start_time = inst.startTime /\ r.end_time = inst.endTime

\* The rows new are the rows of exactly the instances.
HoldsEvery(new, instances) ==
    /\ Cardinality(new) = Len(instances)
    /\ \A i \in 1..Len(instances) : \E r \in new : RowOf(r, instances[i])
    /\ \A r \in new : \E i \in 1..Len(instances) : RowOf(r, instances[i])

\* C3: persisting the batch of a create or import request is atomic: after
\* the request ends, with success or with any error raised while instances
\* are added or committed, the store holds either every instance produced
\* by expanding the request or none of them.
C3_BatchAtomic ==
    [][BatchRequest
       => \/ activities' = activities
          \/ /\ RequestInstances(last'.op, last'.req).ok
             /\ activities \subseteq activities'
             /\ HoldsEvery(activities' \ activities,
                           RequestInstances(last'.op, last'.req).v)]_vars

\* A create request of two instances lost the connection in each of its
\* three runs, the first and the third time after the first instance was
\* added to the session, and nothing of it is in the store.
C3_Witness ==
    /\ last.op = "create"
    /\ last.req = PTwoDays
    /\ last.attempts = MaxAttempts
    /\ last.status = 500
    /\ activities = {}

\* C4: every stored activity instance has a start time strictly earlier
\* than its end time.
C4_StartBeforeEnd ==
    \A a \in activities : MinuteOfDay(a.start_time) < MinuteOfDay(a.end_time)

\* C5: every participant of a stored activity instance is a member owned
\* by the user that owns the instance.
C5_ParticipantsOfOwner ==
    \A a \in activities : \A p \in a.participants :
        \E m \in members : m.id = p /\ m.user_id = a.user_id

\* C9: an import request in which any single activity fails validation
\* ends with a validation error (400), and no instance of any activity of
\* the list is persisted.
C9_ImportRejectedAsInvalid ==
    [][(/\ served' # served
        /\ last'.op = "import"
        /\ \E k \in 1..Len(last'.req) :
               ~ValidateActivityPayload(last'.req[k], "id1").ok)
       => (last'.status = 400 /\ activities' = activities)]_vars

---------------------------------------------------------------------------
(* Order of the expander's output (under PipeSpec) *)

\* The Monday of the ISO week of an instance.
MondayOfInstance(inst) == FromIsoCalendar(inst.year, inst.week, 1).v

\* C24: the expander emits the weeks in chronological order and, within a
\* week, the instances in the order in which the days were supplied (not
\* in calendar order); a rule without end date gives one instance per
\* supplied day, in the order supplied.
C24_ExpansionOrder ==
    (phase = "expanded" /\ insts.ok)
    => /\ \A i, j \in 1..Len(insts.v) :
              i < j
              => /\ MondayOfInstance(insts.v[i]) <= MondayOfInstance(insts.v[j])
                 /\ MondayOfInstance(insts.v[i]) = MondayOfInstance(insts.v[j])
                    => \E p, q \in 1..Len(norm.v.days) :
                           /\ p < q
                           /\ norm.v.days[p] = insts.v[i].day
                           /\ norm.v.days[q] = insts.v[j].day
       /\ IsNone(norm.v.recurringEndDate)
          => /\ Len(insts.v) = Len(norm.v.days)
             /\ \A i \in 1..Len(insts.v) : insts.v[i].day = norm.v.days[i]

\* The rule Fredag, Måndag of week 1 of 2024 until Friday 2024-01-12 was
\* expanded: Fredag comes before Måndag in each of the two weeks.
C24_Witness ==
    /\ phase = "expanded"
    /\ insts.ok
    /\ norm.v.days = <<"Fredag", "Måndag">>
    /\ Len(insts.v) = 4
    /\ insts.v[1].day = "Fredag" /\ insts.v[1].week = 1
    /\ insts.v[2].day = "Måndag" /\ insts.v[2].week = 1
    /\ insts.v[3].day = "Fredag" /\ insts.v[3].week = 2
    /\ insts.v[4].day = "Måndag" /\ insts.v[4].week = 2

---------------------------------------------------------------------------
(* Properties of the time utilities (under PipeSpec) *)

\* s has the pattern HH:MM: two digits, a colon, two digits, the hour in
\* 0..23 and the minute in 0..59.
IsHHMM(s) ==
    /\ Len(s) = 5
    /\ IsDigit(s[1]) /\ IsDigit(s[2]) /\ s[3] = ":"
    /\ IsDigit(s[4]) /\ IsDigit(s[5])
    /\ 10 * DigitVal(s[1]) + DigitVal(s[2]) <= 23
    /\ 10 * DigitVal(s[4]) + DigitVal(s[5]) <= 59

\* C20: every time string that _parse_time_hhmm accepts has the pattern
\* HH:MM, and formatting the parsed value with _time_to_str gives back the
\* identical string (here: the startTime and endTime of a payload the
\* validator accepted, against the strings it stored).
C20_ParseFormatRoundTrip ==
    (Validated /\ norm.ok)
    => /\ IsHHMM(raw.startTime.s)
       /\ IsHHMM(raw.endTime.s)
       /\ norm.v.startTime = raw.startTime.s
       /\ norm.v.endTime = raw.endTime.s

---------------------------------------------------------------------------
(* Properties of the participant resolution (under ResolveSpec) *)

RosterIds(fm) == {fm[i].id.s : i \in DOMAIN fm}

\* The ids a reference text t stands for: t itself if it is an id of the
\* roster, otherwise the ids of the members whose lowercased name is the
\* lowercased t; the empty set says that t is unknown.
ResolvesTo(fm, t) ==
    IF t \in RosterIds(fm) THEN {t}
    ELSE {fm[i].id.s :
              i \in {j \in DOMAIN fm :
                         LowerName(fm[j].name.s) = LowerName(t)}}

\* The reference texts of a participants list as they are written.
WrittenReferences(item) ==
    {RawParticipants(item)[k].s :
         k \in {j \in DOMAIN RawParticipants(item) :
                    ~IsNone(RawParticipants(item)[j])}}

\* The reference texts of a participants list, trimmed, the blank ones left
\* out.
TrimmedReferences(item) ==
    {Strip(t) : t \in WrittenReferences(item)} \ {""}

\* out holds the ids that the references refs stand for, and nothing else
ResolvedList(fm, refs, out) ==
    /\ \A t \in refs :
           ResolvesTo(fm, t) # {}
           => \E k \in DOMAIN out : out[k].s \in ResolvesTo(fm, t)
    /\ \A k \in DOMAIN out :
           \E t \in refs : out[k].s \in ResolvesTo(fm, t)

NoDuplicates(out) == \A j, k \in DOMAIN out : out[j] = out[k] => j = k

MappingDone == rphase \in {"mapped", "remapped"}

UnknownReferences(fm, item) ==
    {t \in TrimmedReferences(item) : ResolvesTo(fm, t) = {}}

\* C13: strict mode is what the environment variable says at the time of the
\* call.  With it switched on, items holding an unknown reference make the
\* resolution fail, nothing being returned; with it switched off the same
\* items are returned, each with the resolvable subset of its participants.
C13_StrictModeAtCallTime ==
    MappingDone
    => IF GetenvStrict(environ)
       THEN (\E i \in DOMAIN items : UnknownReferences(fm_list, items[i]) # {})
            => ~mapped.ok
       ELSE /\ mapped.ok
            /\ \A i \in DOMAIN items :
                   ResolvedList(fm_list, TrimmedReferences(items[i]),
                                mapped.v[i].participants.l)

---------------------------------------------------------------------------
(* Properties of the roster and of the delete requests (under RosterSpec) *)

\* The request that was just served is one of ops.
Served(ops) == served' # served /\ last'.op \in ops

\* C11: a create request that is answered 201 stores each new instance
\* with, as participant, every member of the requesting user whose name
\* equals one of the payload's participant references case-insensitively.
C11_NameReferenceResolved ==
    [][Served({"create"}) /\ last'.status = 201
       => \A r \in activities' \ activities :
              \A m \in members :
                  (/\ m.user_id = last'.user
                   /\ \E i \in DOMAIN last'.req.participants.l :
                          LowerName(last'.req.participants.l[i])
                              = LowerName(m.name))
                  => m.id \in r.participants]_vars

\* C14: a delete-member request for a member of the requesting user that
\* is a participant of a stored instance is answered 409 and changes
\* nothing; a delete-member request removes a member only if no stored
\* instance has it as participant, and then it removes that member only.
C14_ReferencedMemberKept ==
    [][Served({"deleteMember"})
       => /\ (/\ \E m \in members : /\ m.id = last'.req
                                    /\ m.user_id = last'.user
              /\ \E a \in activities : last'.req \in a.participants)
             => /\ last'.status = 409
                /\ members' = members
                /\ activities' = activities
          /\ members' # members
             => /\ ~\E a \in activities : last'.req \in a.participants
                /\ members' = {m \in members : m.id # last'.req}
                /\ activities' = activities]_vars

\* A member that an instance references was asked to be deleted, and the
\* answer was 409.
C14_Witness ==
    /\ last.op = "deleteMember"
    /\ last.status = 409
    /\ \E m \in members : m.id = last.req /\ m.user_id = last.user
    /\ \E a \in activities : last.req \in a.participants

\* C15: a delete of an instance or of a series leaves the members of every
\* user as they were (ids, names, colours, icons), and every instance that
\* stays keeps its fields and its participants.
C15_DeleteKeepsMembers ==
    [][Served({"delete", "deleteSeries"})
       => /\ members' = members
          /\ activities' \subseteq activities]_vars

\* An instance was deleted, and the member m1, created before it, is still
\* there.
C15_Witness ==
    /\ last.op \in {"delete", "deleteSeries"}
    /\ last.status = 200
    /\ activities = {}
    /\ \E m \in members : m.id = "m1" /\ m.user_id = last.user

\* No two members of a user have names that are equal case-insensitively.
UniqueNames ==
    \A m1, m2 \in members :
        (m1.user_id = m2.user_id /\ LowerName(m1.name) = LowerName(m2.name))
        => m1 = m2

\* The name that a create-member or an update-member request asks for.
AskedName(op, req) == IF op = "createMember" THEN req ELSE req.data.name

\* The request asks for a name that another member of the user has,
\* compared case-insensitively; an update asks it for a member of the user.
AsksDuplicate(op, user, req) ==
    /\ AskedName(op, req).k = "str"
    /\ op = "updateMember"
       => \E m \in members : m.id = req.id /\ m.user_id = user
    /\ \E m \in members :
           /\ m.user_id = user
           /\ op = "updateMember" => m.id # req.id
           /\ LowerName(m.name) = LowerName(Strip(AskedName(op, req).s))

\* C16: after every sequence of member create, update, delete and roster
\* read requests the names of a user's members are unique
\* case-insensitively, and a create or a rename that asks for a duplicate
\* is answered 400 and leaves the roster as it was.
C16_NamesUnique ==
    /\ []UniqueNames
    /\ [][Served({"createMember", "updateMember"})
          /\ AsksDuplicate(last'.op, last'.user, last'.req)
          => last'.status = 400 /\ members' = members]_vars

\* The member Bob was asked to be renamed ALICE while Alice exists, and the
\* answer was 400.
C16_Witness ==
    /\ last.op = "updateMember"
    /\ last.status = 400
    /\ last.req.data = MemberData(PyStr("ALICE"), Absent)
    /\ \E m \in members : m.id = last.req.id /\ m.name = "Bob"
    /\ \E m \in members : m.user_id = last.user /\ m.name = "Alice"

\* The instances that a delete request of user for id is about.
Matching(op, user, id) ==
    {a \in activities :
         /\ a.user_id = user
         /\ IF op = "delete" THEN a.id = id ELSE a.series_id = id}

\* C19: a delete or a series delete removes exactly the instances of the
\* user that match and returns their number; when none matches it is
\* answered 404 and the store is unchanged.
C19_DeleteReturnsCount ==
    [][Served({"delete", "deleteSeries"})
       => IF Matching(last'.op, last'.user, last'.req) = {}
          THEN /\ last'.status = 404
               /\ activities' = activities
          ELSE /\ activities'
                     = activities \ Matching(last'.op, last'.user, last'.req)
               /\ "count" \in DOMAIN last'.data
               /\ last'.data.count
                     = Cardinality(Matching(last'.op, last'.user, last'.req))
      ]_vars

---------------------------------------------------------------------------
(* Properties of the retry wrapper (under RetrySpec and RetryFairSpec) *)

InWrapper == call.state \in {"running", "done"}

\* C17: the handler is run at most 3 times for a request; it is run again
\* only after a run that raised OperationalError; the wrapper is left with
\* the answer of the first run that raised no OperationalError, or, after
\* the third run that raised it, with the error (answered 500); and every
\* request that entered the wrapper leaves it.
C17_RetryBounded ==
    /\ [](InWrapper
          => /\ call.attempt <= MaxAttempts
             /\ Len(call.raised) <= MaxAttempts
             /\ \A i \in 1..(Len(call.raised) - 1) :
                    call.raised[i] = "OperationalError"
             /\ call.state = "running"
                => /\ Len(call.raised) = call.attempt - 1
                   /\ \A i \in DOMAIN call.raised :
                          call.raised[i] = "OperationalError"
             /\ call.state = "done"
                => /\ Len(call.raised) = call.attempt
                   /\ call.raised[call.attempt] = "OperationalError"
                      => call.attempt = MaxAttempts /\ call.status = 500)
    /\ (call.state = "running") ~> (call.state = "done")

\* A request was run three times, each run losing the connection, and left
\* the wrapper with the error.
C17_Witness ==
    /\ call.state = "done"
    /\ call.raised = <<"OperationalError", "OperationalError",
                       "OperationalError">>
    /\ call.status = 500

\* C18: for every request, an import included, whose first run loses the
\* connection, the handler is run again.
C18_RetryUniform ==
    (/\ call.state = "done"
     /\ call.faults[1] = 1)
    => call.attempt >= 2

---------------------------------------------------------------------------
(* Properties of the update handlers (under Spec) *)

\* A field of the body that the handler op converts is invalid.
InvalidUpdate(op, data) ==
    \/ data.startTime.k # "absent" /\ ~ParseTimeHHMM(data.startTime).ok
    \/ data.endTime.k # "absent" /\ ~ParseTimeHHMM(data.endTime).ok
    \/ /\ op = "update"
       /\ \/ data.day.k # "absent" /\ ~NormDay(data.day).ok
          \/ data.week.k # "absent" /\ ~RequireInt(data.week).ok
          \/ data.year.k # "absent" /\ ~RequireInt(data.year).ok

\* C29: an update-activity or update-series request with an invalid field
\* is not answered 200 and leaves every stored instance as it was before
\* the request, the fields and the participant replacement that were
\* applied before the invalid field was reached included.
C29_FailedUpdatePersistsNothing ==
    [][(/\ Served({"update", "updateSeries"})
        /\ InvalidUpdate(last'.op, last'.req.data))
       => (/\ last'.status # 200
           /\ activities' = activities
           /\ members' = members)]_vars

\* An update-series request replacing the participants of a stored series
\* that has a participant was answered 400 for its endTime.
C29_Witness ==
    /\ last.op = "updateSeries"
    /\ last.status = 400
    /\ last.req.data.participants = PyList(<<"m2">>)
    /\ ~ParseTimeHHMM(last.req.data.endTime).ok
    /\ \E a \in activities :
           /\ a.series_id = last.req.id
           /\ a.user_id = last.user
           /\ a.participants = {"m1"}

\* The rows the update or series update req of user addresses, among rows.
Addressed(rows, op, user, req) ==
    {a \in rows : /\ a.user_id = user
                  /\ IF op = "update" THEN a.id = req.id
                     ELSE a.series_id = req.id}

Supplied(x, old) == IF x.k = "absent" THEN old ELSE x

\* The row b is the row a after the body data of a series update of user.
SeriesApplied(a, b, data, user) ==
    /\ b.id = a.id /\ b.series_id = a.series_id /\ b.user_id = a.user_id
    /\ b.day = a.day /\ b.week = a.week /\ b.year = a.year
    /\ b.name = Rename(data.name, a.name)
    /\ b.icon = Supplied(data.icon, a.icon)
    /\ b.location = Supplied(data.location, a.location)
    /\ b.notes = Supplied(data.notes, a.notes)
    /\ b.color = Supplied(data.color, a.color)
    /\ data.startTime.k # "absent"
       => b.start_time = TimeToStr(ParseTimeHHMM(data.startTime).v)
    /\ data.startTime.k = "absent" => b.start_time = a.start_time
    /\ data.endTime.k # "absent"
       => b.end_time = TimeToStr(ParseTimeHHMM(data.endTime).v)
    /\ data.endTime.k = "absent" => b.end_time = a.end_time
    /\ data.participants.k = "absent" => b.participants = a.participants
    /\ IsNone(data.participants) => b.participants = {}
    /\ IsList(data.participants)
       => b.participants =
              {m.id : m \in {x \in members :
                                /\ x.user_id = user
                                /\ x.id \in Range(data.participants.l)}}

\* C26: a series update that is answered 200 applies the supplied name,
\* icon, participants, startTime, endTime, location, notes and color to
\* every instance of the series owned by the requester; each of them keeps
\* its id, series id, day, week and year, also when the body carries day,
\* week or year; every other instance is unchanged, and a series update
\* that is not answered 200 changes no instance.
C26_SeriesUpdateFrame ==
    [][Served({"updateSeries"})
       => /\ last'.status # 200 => activities' = activities
          /\ last'.status = 200
             => /\ Cardinality(activities') = Cardinality(activities)
                /\ activities' \ Addressed(activities', "updateSeries",
                                            last'.user, last'.req)
                   = activities \ Addressed(activities, "updateSeries",
                                            last'.user, last'.req)
                /\ \A a \in Addressed(activities, "updateSeries",
                                       last'.user, last'.req) :
                       \E b \in activities' :
                           SeriesApplied(a, b, last'.req.data, last'.user)]_vars

\* A series update carrying name, icon, startTime, location, notes, color,
\* day, week and year was answered 200 for a series of two instances, on
\* Fredag and Lördag of week 40, which both hold the new location.
C26_Witness ==
    /\ last.op = "updateSeries"
    /\ last.status = 200
    /\ last.req.data.day = PyStr("Lördag")
    /\ last.req.data.week = PyInt(41)
    /\ \E a, b \in Addressed(activities, "updateSeries", last.user, last.req) :
           /\ a.id # b.id
           /\ a.day # b.day
           /\ a.week = 40 /\ b.week = 40
           /\ a.name = "ALICE" /\ b.name = "ALICE"
           /\ a.location = PyStr("Hallen") /\ b.location = PyStr("Hallen")

---------------------------------------------------------------------------
(* Properties of the owner filter (under OwnerSpec) *)

\* The rows of rows that are not owned by user.
OfOthers(rows, user) == {a \in rows : a.user_id # user}

\* The rows a request of the handler op names by id or by series id,
\* whoever owns them.
Named(rows, op, req) ==
    CASE op = "update" -> {a \in rows : a.id = req.id}
      [] op = "updateSeries" -> {a \in rows : a.series_id = req.id}
      [] op = "delete" -> {a \in rows : a.id = req}
      [] op = "deleteSeries" -> {a \in rows : a.series_id = req}
      [] OTHER -> {}

\* C28: a list, update, delete, series update or series delete of a user
\* leaves the instances of the other users as they were, a list answered
\* 200 returns instances of the requester only, and an update or delete
\* that names only instances of other users is answered 404 (or 500 when
\* every run of the handler lost the connection).
C28_OwnerIsolation ==
    [][Served({"list", "update", "updateSeries", "delete", "deleteSeries"})
       => /\ OfOthers(activities', last'.user) = OfOthers(activities, last'.user)
          /\ (last'.op = "list" /\ last'.status = 200)
             => /\ \A d \in last'.data :
                       \E a \in activities :
                           a.user_id = last'.user /\ d = ActivityToDict(a)
                /\ \A a \in OfOthers(activities, last'.user) :
                       ActivityToDict(a) \notin last'.data
          /\ (/\ last'.op # "list"
              /\ Named(activities, last'.op, last'.req)
                     \subseteq OfOthers(activities, last'.user))
             => \/ last'.status = 404
                \/ last'.status = 500 /\ last'.attempts = MaxAttempts]_vars

\* A series delete naming a series id under which only another user holds
\* an instance was answered 404, and the instance is stored.
C28_Witness ==
    /\ last.op = "deleteSeries"
    /\ last.status = 404
    /\ Named(activities, "deleteSeries", last.req) # {}
    /\ Named(activities, "deleteSeries", last.req)
           \subseteq OfOthers(activities, last.user)

---------------------------------------------------------------------------
(* Properties of the roster read (under DefaultsSpec) *)

\* The rows of the roster of user.
RosterOf(ms, user) == {m \in ms : m.user_id = user}

AlphabeticalRank(name) ==
    CASE name = "Alpha" -> 1
      [] name = "Bravo" -> 2
      [] name = "Charlie" -> 3

\* C23: a roster read answered 200 lists the members that were created
\* without a display order alphabetically by name, whatever the order in
\* which they were created.
C23_RosterReadSorted ==
    (/\ last.op = "getMembers"
     /\ last.status = 200
     /\ \A i \in DOMAIN last.data : last.data[i].name \in ListedNames)
    => \A i, j \in DOMAIN last.data :
           i < j => AlphabeticalRank(last.data[i].name)
                        <= AlphabeticalRank(last.data[j].name)

---------------------------------------------------------------------------
(* Properties of the normalization (under NormalizeSpec) *)

Normalized == rphase = "normalized"

\* The item carries an explicit date that is a calendar date.
Dated(item) ==
    /\ IsStr(item.date)
    /\ item.date.s # <<>>
    /\ StrpDate(item.date.s).ok

\* The item has a name that is not blank.
Named21(item) == IsStr(item.name) /\ Strip(item.name.s) # ""

\* The positions of the entries of the result that carry the name of item.
EntriesOf(item) ==
    {j \in DOMAIN mapped.v : mapped.v[j].name = PyStr(Strip(item.name.s))}

\* C21: every item with an explicit date, a name and string times gives
\* exactly one entry, whose days hold only the weekday name of the date
\* and whose week and year are the ISO week and ISO year of the date,
\* whatever day, days, week, year and defaults come with it (the items of a
\* list have different names).
C21_DateGivesIsoWeek ==
    (Normalized /\ mapped.ok)
    => \A i \in DOMAIN items :
           (/\ Dated(items[i])
            /\ Named21(items[i])
            /\ IsStr(items[i].startTime)
            /\ IsStr(items[i].endTime))
           => /\ Cardinality(EntriesOf(items[i])) = 1
              /\ \A j \in EntriesOf(items[i]) :
                     /\ mapped.v[j].days =
                            PyList(<<PyStr(SWEDISH_DAYS[
                                IsoCalendar(StrpDate(items[i].date.s).v)
                                    .weekday])>>)
                     /\ mapped.v[j].week =
                            PyInt(IsoCalendar(StrpDate(items[i].date.s).v).week)
                     /\ mapped.v[j].year =
                            PyInt(IsoCalendar(StrpDate(items[i].date.s).v).year)

\* The item dated 2025-10-03, which also carries day Måndag, days
\* [Tisdag], week 1 and year 2024, gave days [Fredag], week 40, year 2025,
\* after the item dated 2024-12-30 gave days [Måndag], week 1, year 2025.
C21_Witness ==
    /\ Normalized
    /\ mapped.ok
    /\ Len(items) = 2
    /\ items[1].date = D20241230
    /\ items[2].date = D20251003
    /\ items[2].day = PyStr("Måndag")
    /\ items[2].week = PyInt(1)
    /\ Len(mapped.v) = 2
    /\ mapped.v[1].days = PyList(<<PyStr("Måndag")>>)
    /\ mapped.v[1].week = PyInt(1) /\ mapped.v[1].year = PyInt(2025)
    /\ mapped.v[2].days = PyList(<<PyStr("Fredag")>>)
    /\ mapped.v[2].week = PyInt(40) /\ mapped.v[2].year = PyInt(2025)
    /\ mapped.v[2].participants = PyList(<<PyStr("1"), PyStr("2")>>)

\* The entry e has the required fields in their normal form.
WellFormed(e) ==
    /\ IsStr(e.name) /\ e.name.s # "" /\ Strip(e.name.s) = e.name.s
    /\ IsStr(e.startTime) /\ IsStr(e.endTime)
    /\ IsList(e.participants)
    /\ \A i \in DOMAIN e.participants.l : IsStr(e.participants.l[i])
    /\ IsList(e.days) /\ e.days.l # <<>>
    /\ \A i \in DOMAIN e.days.l :
           /\ IsStr(e.days.l[i])
           /\ \E d \in 1..7 : SWEDISH_DAYS[d] = e.days.l[i].s
           /\ \A j \in DOMAIN e.days.l : e.days.l[i] = e.days.l[j] => i = j
    /\ IsInt(e.week) /\ IsInt(e.year)

\* The item has a name but lacks a required field, or has an invalid one:
\* a time that is no string, or no day at all (no date, no dates, no day,
\* and days that is neither a string nor a list that holds a label).
Unusable(item) ==
    /\ Named21(item)
    /\ \/ ~IsStr(item.startTime)
       \/ ~IsStr(item.endTime)
       \/ /\ ~TruthyDate(Get(item.date))
          /\ ~IsList(Get(item.dates))
          /\ ~IsStr(Get(item.day))
          /\ ~IsStr(Get(item.days))
          /\ \/ ~IsList(Get(item.days))
             \/ item.days.l = <<>>

\* The position in items of the item that gave the entry e.
ItemOf(e) ==
    CHOOSE i \in DOMAIN items :
        IsStr(items[i].name) /\ PyStr(Strip(items[i].name.s)) = e.name

====
